---- MODULE Spec2Model ----
(***************************************************************************)
(* Model of the content-optimization engine of limitless-lifelog-parser   *)
(* (src/src/services/TokenOptimizer.js).  Text is modelled character by    *)
(* character: a JavaScript string is a TLA+ string, s[i] is Ch(s, i), and  *)
(* every regular expression of the source is an operator that scans the    *)
(* characters the way the regular expression does.                         *)
(***************************************************************************)
EXTENDS Integers, Sequences, FiniteSets, TLC

(***************************************************************************)
(* Strings                                                                 *)
(***************************************************************************)

\* s.charAt(i - 1)
Ch(s, i) == SubSeq(s, i, i)

\* the class \s of the regular expressions, over the characters of the model
IsSpace(c) == c \in {" ", "\n", "\t"}

UpperCase == "ABCDEFGHIJKLMNOPQRSTUVWXYZ"
LowerCase == "abcdefghijklmnopqrstuvwxyz"
Digits == "0123456789"

UpperCaseLetters ==
  {"A", "B", "C", "D", "E", "F", "G", "H", "I", "J", "K", "L", "M", "N",
   "O", "P", "Q", "R", "S", "T", "U", "V", "W", "X", "Y", "Z"}

LowerCaseLetters ==
  {"a", "b", "c", "d", "e", "f", "g", "h", "i", "j", "k", "l", "m", "n",
   "o", "p", "q", "r", "s", "t", "u", "v", "w", "x", "y", "z"}

DigitCharacters == {"0", "1", "2", "3", "4", "5", "6", "7", "8", "9"}

IsUpper(c) == c \in UpperCaseLetters
IsLower(c) == c \in LowerCaseLetters
\* the class \p{L}
IsLetter(c) == IsLower(c) \/ IsUpper(c)
\* the class \p{N}
IsDigit(c) == c \in DigitCharacters

CeilDiv(a, b) == (a + b - 1) \div b

\* least j in lo..hi with P(j), hi + 1 if there is none
FirstIn(lo, hi, P(_)) ==
  IF lo > hi THEN hi + 1
  ELSE CHOOSE j \in lo..(hi + 1) :
         (j = hi + 1 \/ P(j)) /\ \A k \in lo..(j - 1) : ~P(k)

\* greatest j in lo..hi with P(j), 0 if there is none
LastIn(lo, hi, P(_)) ==
  IF \E j \in lo..hi : P(j)
  THEN hi - FirstIn(0, hi - lo, LAMBDA d : P(hi - d))
  ELSE 0

FirstNonSpace(s, i) == FirstIn(i, Len(s), LAMBDA j : ~IsSpace(Ch(s, j)))

LastNonSpace(s, i) == LastIn(1, i, LAMBDA j : ~IsSpace(Ch(s, j)))

\* String.prototype.trim
trim(s) == SubSeq(s, FirstNonSpace(s, 1), LastNonSpace(s, Len(s)))

\* s.startsWith(k, i - 1)
StartsWithAt(s, i, k) ==
  /\ i + Len(k) - 1 <= Len(s)
  /\ SubSeq(s, i, i + Len(k) - 1) = k

\* String.prototype.includes
includes(s, k) == \E i \in 1..(Len(s) - Len(k) + 1) : StartsWithAt(s, i, k)

toLowerCh(c) ==
  IF IsUpper(c)
  THEN Ch(LowerCase, CHOOSE i \in 1..26 : Ch(UpperCase, i) = c)
  ELSE c

\* the characters lo..hi of s in lower case, by halves
RECURSIVE toLowerRange(_, _, _)
toLowerRange(s, lo, hi) ==
  IF lo > hi THEN ""
  ELSE IF lo = hi THEN toLowerCh(Ch(s, lo))
  ELSE LET mid == (lo + hi) \div 2
       IN  toLowerRange(s, lo, mid) \o toLowerRange(s, mid + 1, hi)

\* String.prototype.toLowerCase
toLowerCase(s) == toLowerRange(s, 1, Len(s))

\* s.split(' ').length: a separator of one character cuts the string into
\* one piece more than there are separators
splitLength(s, c) == Cardinality({i \in 1..Len(s) : Ch(s, i) = c}) + 1

\* end of the run of \s characters that starts at i (i - 1 if there is none)
SpaceRunEnd(s, i) == FirstNonSpace(s, i) - 1

\* last "\n" in s[i..e], 0 if there is none
LastNewline(s, i, e) == LastIn(i, e, LAMBDA j : Ch(s, j) = "\n")

CountNewlines(s, i, e) == Cardinality({j \in i..e : Ch(s, j) = "\n"})

(***************************************************************************)
(* TokenCounter                                                            *)
(***************************************************************************)

\* The special tokens of the cl100k_base vocabulary.  encode() is called
\* with its default arguments, which disallow every special token: it
\* throws on a text that contains one.
SpecialTokens ==
  {"<|endoftext|>", "<|fim_prefix|>", "<|fim_middle|>", "<|fim_suffix|>",
   "<|endofprompt|>"}

EncodeThrows(text) ==
  \E i \in 1..Len(text) :
    Ch(text, i) = "<" /\ \E t \in SpecialTokens : StartsWithAt(text, i, t)

LetterRunEnd(s, i) ==
  FirstIn(i, Len(s), LAMBDA j : ~IsLetter(Ch(s, j))) - 1

IsPunct(c) == ~IsSpace(c) /\ ~IsLetter(c) /\ ~IsDigit(c)

PunctRunEnd(s, i) == FirstIn(i, Len(s), LAMBDA j : ~IsPunct(Ch(s, j))) - 1

NewlineRunEnd(s, i) == FirstIn(i, Len(s), LAMBDA j : Ch(s, j) # "\n") - 1

\* Last index of the piece that the pre-tokenizer pattern of cl100k_base
\* cuts off at position i:
\*   [^\r\n\p{L}\p{N}]?\p{L}+ | \p{N}{1,3} | ?[^\s\p{L}\p{N}]+[\r\n]*
\*   | \s*[\r\n]+ | \s+(?!\S) | \s+
\* (the alternative for English contractions is left out: the texts of the
\* model contain no apostrophe).
PieceEnd(s, i) ==
  LET c == Ch(s, i)
      n == Len(s)
      next == IF i < n THEN Ch(s, i + 1) ELSE ""
      run == SpaceRunEnd(s, i)
      nl == LastNewline(s, i, run)
  IN  IF IsLetter(c) THEN LetterRunEnd(s, i)
      ELSE IF c # "\n" /\ ~IsDigit(c) /\ i < n /\ IsLetter(next)
        THEN LetterRunEnd(s, i + 1)
      ELSE IF IsDigit(c)
        THEN IF i + 1 <= n /\ IsDigit(Ch(s, i + 1))
             THEN IF i + 2 <= n /\ IsDigit(Ch(s, i + 2)) THEN i + 2 ELSE i + 1
             ELSE i
      ELSE IF IsPunct(c) THEN NewlineRunEnd(s, PunctRunEnd(s, i) + 1)
      ELSE IF c = " " /\ i < n /\ IsPunct(next)
        THEN NewlineRunEnd(s, PunctRunEnd(s, i + 1) + 1)
      ELSE IF nl # 0 THEN nl
      ELSE IF run = n THEN run
      ELSE IF run > i THEN run - 1
      ELSE run

\* A run of letters is taken by one piece, which ends with it: the scan is
\* at the character that follows a run of letters whatever came before.
AfterWord(s, i) ==
  i = 1 \/ (IsLetter(Ch(s, i - 1)) /\ ~IsLetter(Ch(s, i)))

\* number of pieces cut from position i up to the end of the next word
RECURSIVE CountPiecesFrom(_, _)
CountPiecesFrom(s, i) ==
  LET next == PieceEnd(s, i) + 1
  IN  1 + (IF next > Len(s) \/ AfterWord(s, next) THEN 0
           ELSE CountPiecesFrom(s, next))

\* number of pieces of the words lo..hi, summed by halves; starts holds
\* the positions at which the scan is after a word
RECURSIVE CountPieces(_, _, _, _)
CountPieces(s, starts, lo, hi) ==
  IF lo > hi THEN 0
  ELSE IF lo = hi THEN CountPiecesFrom(s, starts[lo])
  ELSE LET mid == (lo + hi) \div 2
       IN  CountPieces(s, starts, lo, mid)
           + CountPieces(s, starts, mid + 1, hi)

\* this.encoder.encode(text).length.  The encoder is the library
\* js-tiktoken, which is no part of the sources.  Its pre-tokenizer cuts
\* the text into pieces and byte-pair merging leaves at least one token for
\* each piece: one token for a piece that is a word of the vocabulary,
\* several for others.  The count here is the number of pieces, a lower
\* bound of the length of the encoding that is exact for texts of
\* vocabulary words.
EncodeLength(text) ==
  LET starts == SelectSeq([i \in 1..Len(text) |-> i],
                          LAMBDA i : AfterWord(text, i))
  IN  CountPieces(text, starts, 1, Len(starts))

\* the estimate rounded down
fallbackEstimateFloor(text) == Len(text) \div 4

\* line 37: Math.ceil(text.length / 4)
fallbackEstimate(text) == CeilDiv(Len(text), 4)

\* countTokens: 0 for the empty string, the length of the encoding, and
\* ceil(length / 4) when encode throws
countTokens(text) ==
  IF text = "" THEN 0
  ELSE IF EncodeThrows(text) THEN fallbackEstimate(text)
  ELSE EncodeLength(text)

\* A JavaScript value: its typeof and its value as text ("null" of type
\* "object" is null).
JsValue(type, value) == [type |-> type, value |-> value]

JsString(s) == JsValue("string", s)

\* !v is false
TruthyValue(v) ==
  IF v.type = "string" THEN v.value # ""
  ELSE IF v.type = "number" THEN v.value \notin {"0", "NaN"}
  ELSE IF v.type = "boolean" THEN v.value = "true"
  ELSE IF v.type = "object" THEN v.value # "null"
  ELSE FALSE

\* countTokens without the test of typeof: what is not falsy is encoded
countTokensOfNoTypeCheck(v) ==
  IF ~TruthyValue(v) THEN 0
  ELSE IF v.type = "string" THEN countTokens(v.value)
  ELSE 1

\* countTokens of any argument, line 32 first
countTokensOf(v) ==
  IF ~TruthyValue(v) \/ v.type # "string" THEN 0 ELSE countTokens(v.value)

(***************************************************************************)
(* Summarizer, Light tier                                                  *)
(***************************************************************************)

\* a match of /\n\s*\n\s*\n/ starts at j: a "\n" whose run of white space
\* holds three "\n"
BlankLinesAt(s, j) ==
  Ch(s, j) = "\n" /\ CountNewlines(s, j, SpaceRunEnd(s, j)) >= 3

\* processed.replace(/\n\s*\n\s*\n/g, '\n\n') from position i on: a match,
\* being greedy, ends at the last "\n" of its run of white space
RECURSIVE collapseBlankLines(_, _)
collapseBlankLines(s, i) ==
  LET m == FirstIn(i, Len(s), LAMBDA j : BlankLinesAt(s, j))
  IN  IF m > Len(s) THEN SubSeq(s, i, Len(s))
      ELSE SubSeq(s, i, m - 1) \o "\n\n"
           \o collapseBlankLines(s, LastNewline(s, m, SpaceRunEnd(s, m)) + 1)

\* index of the "]" that closes the lazy /\[.*?\]:/ opened at j - 1: the
\* first "]:" before the end of the line; 0 if there is none
SpeakerClose(s, j) ==
  LET k == FirstIn(j, Len(s) - 1,
                   LAMBDA x : Ch(s, x) = "\n"
                              \/ (Ch(s, x) = "]" /\ Ch(s, x + 1) = ":"))
  IN  IF k > Len(s) - 1 \/ Ch(s, k) = "\n" THEN 0 ELSE k

\* processed.replace(/\[.*?\]:\s*/g, '') from position i on
RECURSIVE stripSpeakers(_, _)
stripSpeakers(s, i) ==
  LET m == FirstIn(i, Len(s),
                   LAMBDA j : Ch(s, j) = "[" /\ SpeakerClose(s, j + 1) # 0)
  IN  IF m > Len(s) THEN SubSeq(s, i, Len(s))
      ELSE SubSeq(s, i, m - 1)
           \o stripSpeakers(s, SpaceRunEnd(s, SpeakerClose(s, m + 1) + 2) + 1)

\* index of the "\n" that ends the line starting at i, Len(s) + 1 on the
\* last line
LineEnd(s, i) == FirstIn(i, Len(s), LAMBDA j : Ch(s, j) = "\n")

\* processed.replace(/^.{1,15}$/gm, '') from the line that starts at i on:
\* every line of 1 to 15 characters is emptied, its line break stays
RECURSIVE dropShortLines(_, _)
dropShortLines(s, i) ==
  IF i > Len(s) THEN ""
  ELSE LET e == LineEnd(s, i)
           line == SubSeq(s, i, e - 1)
           kept == IF Len(line) >= 1 /\ Len(line) <= 15 THEN "" ELSE line
       IN  IF e > Len(s) THEN kept
           ELSE kept \o "\n" \o dropShortLines(s, e + 1)

\* JavaScript truthiness of an option value; a missing argument is
\* "undefined", a boolean is "true" or "false"
Truthy(v) == v = "true"

lightSummarize(content, includeSpeakers) ==
  LET p1 == collapseBlankLines(content, 1)
      p2 == IF ~Truthy(includeSpeakers) THEN stripSpeakers(p1, 1) ELSE p1
      p3 == dropShortLines(p2, 1)
  IN  trim(p3)

SentenceEnds == {".", "!", "?"}

\* s.split(/[.!?]+/) from position start on: the text before each run of
\* sentence ends, and the rest
RECURSIVE splitOnEndsFrom(_, _)
splitOnEndsFrom(s, start) ==
  LET p == FirstIn(start, Len(s), LAMBDA j : Ch(s, j) \in SentenceEnds)
  IN  IF p > Len(s) THEN <<SubSeq(s, start, Len(s))>>
      ELSE <<SubSeq(s, start, p - 1)>>
           \o splitOnEndsFrom(
                s, FirstIn(p, Len(s), LAMBDA j : Ch(s, j) \notin SentenceEnds))

\* processed.split(/[.!?]+/).filter(s => s.trim().length > minimum)
sentencesLongerThan(processed, minimum) ==
  SelectSeq(splitOnEndsFrom(processed, 1),
            LAMBDA x : Len(trim(x)) > minimum)

\* place of x in a list sorted by descending length, after the elements
\* that are not shorter (the sort is stable)
RECURSIVE insertByLength(_, _)
insertByLength(sorted, x) ==
  IF sorted = <<>> THEN <<x>>
  ELSE IF Len(Head(sorted)) >= Len(x)
  THEN <<Head(sorted)>> \o insertByLength(Tail(sorted), x)
  ELSE <<x>> \o sorted

\* sentences.sort((a, b) => b.length - a.length)
RECURSIVE sortByLength(_, _)
sortByLength(sentences, k) ==
  IF k = 0 THEN <<>>
  ELSE insertByLength(sortByLength(sentences, k - 1), sentences[k])

\* parts.join(separator)
RECURSIVE join(_, _)
join(parts, separator) ==
  IF parts = <<>> THEN ""
  ELSE IF Len(parts) = 1 THEN parts[1]
  ELSE parts[1] \o separator \o join(Tail(parts), separator)

\* keywords.some(keyword => sentence.toLowerCase().includes(keyword))
hasKeyword(sentence, keywords) ==
  \E keyword \in keywords : includes(toLowerCase(sentence), keyword)

importantKeywords ==
  {"decided", "important", "meeting", "project", "deadline", "goal",
   "problem", "solution", "action", "next", "follow", "complete", "urgent",
   "priority", "schedule", "appointment", "reminder"}

\* lines 235-239
keySentencesOf(sentences) ==
  SelectSeq(sentences,
            LAMBDA x : hasKeyword(x, importantKeywords) \/ Len(x) > 50)

\* lines 241-247: the key sentences, or the longest 70% of the sentences
\* if the key sentences are fewer than 30% of them
moderateOutput(sentences, keySentences) ==
  IF 10 * Len(keySentences) < 3 * Len(sentences)
  THEN join(SubSeq(sortByLength(sentences, Len(sentences)), 1,
                   CeilDiv(7 * Len(sentences), 10)),
            ". ") \o "."
  ELSE join(keySentences, ". ") \o "."

moderateOf(sentences) == moderateOutput(sentences, keySentencesOf(sentences))

moderateSummarize(content, includeSpeakers) ==
  moderateOf(sentencesLongerThan(lightSummarize(content, includeSpeakers), 20))

highPriorityKeywords ==
  {"decided", "concluded", "agreed", "action", "next steps", "deadline",
   "important", "urgent", "priority", "meeting", "appointment", "schedule"}

\* lines 268-271
criticalSentencesOf(sentences) ==
  SelectSeq(sentences,
            LAMBDA x : hasKeyword(x, highPriorityKeywords))

Min(a, b) == IF a <= b THEN a ELSE b

\* lines 273-279: the critical sentences, or the three longest sentences
\* if there is no critical one
aggressiveOutput(sentences, criticalSentences) ==
  IF Len(criticalSentences) = 0
  THEN join(SubSeq(sortByLength(sentences, Len(sentences)), 1,
                   Min(3, Len(sentences))),
            ". ") \o "."
  ELSE join(criticalSentences, ". ") \o "."

aggressiveOf(sentences) ==
  aggressiveOutput(sentences, criticalSentencesOf(sentences))

aggressiveSummarize(content, includeSpeakers) ==
  aggressiveOf(
    sentencesLongerThan(moderateSummarize(content, includeSpeakers), 30))

\* processContentBySummarizeLevel(content, level, includeSpeakers)
processContentBySummarizeLevel(content, level, includeSpeakers) ==
  IF content = "" THEN ""
  ELSE IF level = "high" THEN aggressiveSummarize(content, includeSpeakers)
  ELSE IF level = "medium" THEN moderateSummarize(content, includeSpeakers)
  ELSE lightSummarize(content, includeSpeakers)

(***************************************************************************)
(* ContentExtractor                                                        *)
(***************************************************************************)

Undefined == "undefined"
Null == "null"
JsBool(b) == IF b THEN "true" ELSE "false"

\* new Date(startTime).toLocaleString() in the en-US locale.  A start time
\* is a minute of the first hour of 2024-01-01; 0 stands for an entry
\* without start time.
toLocaleString(startTime) ==
  "1/1/2024, 12:0" \o Ch(Digits, startTime + 1) \o ":00 AM"

\* the text of one entry, body of the loop of extractAndCleanContent; the
\* call of processContentBySummarizeLevel passes includeSpeakers in the
\* place of level and nothing for includeSpeakers
extractEntryText(lifelog, includeTimestamps, includeSpeakers) ==
  LET ts == IF includeTimestamps /\ lifelog.startTime # 0
            THEN "[" \o toLocaleString(lifelog.startTime) \o "] " ELSE ""
      head == IF lifelog.title # ""
              THEN "## " \o lifelog.title \o "\n\n" ELSE ""
      body == IF lifelog.markdown # ""
              THEN processContentBySummarizeLevel(
                     lifelog.markdown, JsBool(includeSpeakers), Undefined)
                   \o "\n\n"
              ELSE ""
  IN  ts \o head \o body

RECURSIVE concatEntries(_, _, _, _)
concatEntries(lifelogs, k, includeTimestamps, includeSpeakers) ==
  IF k > Len(lifelogs) THEN ""
  ELSE extractEntryText(lifelogs[k], includeTimestamps, includeSpeakers)
       \o concatEntries(lifelogs, k + 1, includeTimestamps, includeSpeakers)

RECURSIVE titlesOf(_, _)
titlesOf(lifelogs, k) ==
  IF k > Len(lifelogs) THEN <<>>
  ELSE (IF lifelogs[k].title # "" THEN <<lifelogs[k].title>> ELSE <<>>)
       \o titlesOf(lifelogs, k + 1)

extractAndCleanContent(lifelogs, includeTimestamps, includeSpeakers) ==
  [fullText |->
     trim(concatEntries(lifelogs, 1, includeTimestamps, includeSpeakers)),
   metadata |-> [totalEntries |-> Len(lifelogs),
                 topics |-> titlesOf(lifelogs, 1)]]

(***************************************************************************)
(* Chunker                                                                 *)
(***************************************************************************)

\* A piece of a split text: its characters and the position of its first
\* character in the text that was split.
Piece(s, from, to) == [text |-> SubSeq(s, from, to), at |-> from]

\* a match of /(?<=[.!?])\s+/ starts at j: white space that follows ".",
\* "!" or "?"
SentenceBreakAt(s, j) ==
  j > 1 /\ IsSpace(Ch(s, j)) /\ Ch(s, j - 1) \in {".", "!", "?"}

\* fullText.split(/(?<=[.!?])\s+/), the pieces from position start on
RECURSIVE splitSentencesFrom(_, _)
splitSentencesFrom(s, start) ==
  LET m == FirstIn(start, Len(s), LAMBDA j : SentenceBreakAt(s, j))
  IN  IF m > Len(s) THEN <<Piece(s, start, Len(s))>>
      ELSE <<Piece(s, start, m - 1)>>
           \o splitSentencesFrom(s, SpaceRunEnd(s, m) + 1)

splitSentences(s) == splitSentencesFrom(s, 1)

\* a match of /(?=##\s)/ is at j
HeadingAt(s, j) ==
  StartsWithAt(s, j, "##") /\ j + 2 <= Len(s) /\ IsSpace(Ch(s, j + 2))

\* fullText.split(/(?=##\s)/), the pieces from position start on: the text
\* is cut before every "##" that is followed by white space; an empty
\* match at the start of a piece does not cut
RECURSIVE splitSectionsFrom(_, _)
splitSectionsFrom(s, start) ==
  LET m == FirstIn(start + 1, Len(s), LAMBDA j : HeadingAt(s, j))
  IN  IF m > Len(s) THEN <<Piece(s, start, Len(s))>>
      ELSE <<Piece(s, start, m - 1)>> \o splitSectionsFrom(s, m)

splitSections(s) == splitSectionsFrom(s, 1)

\* last index in s[i..e] of a character other than "\n", 0 if there is none
LastNonNewline(s, i, e) == LastIn(i, e, LAMBDA j : Ch(s, j) # "\n")

\* extractTopicsFromText: the matches of /^##\s+(.+)$/gm from the line that
\* starts at i on, each trimmed.  \s+ may run over line breaks; when it
\* runs to the end of the text it gives back its last blank to (.+).
RECURSIVE extractTopicsFrom(_, _)
extractTopicsFrom(s, i) ==
  IF i > Len(s) THEN <<>>
  ELSE IF HeadingAt(s, i)
    THEN LET run == SpaceRunEnd(s, i + 2)
             le == LineEnd(s, run + 1)
             back == LastNonNewline(s, i + 3, run)
         IN  IF run < Len(s)
             THEN <<trim(SubSeq(s, run + 1, le - 1))>>
                  \o extractTopicsFrom(s, le + 1)
             ELSE IF back # 0 THEN <<"">> ELSE <<>>
  ELSE extractTopicsFrom(s, LineEnd(s, i) + 1)

extractTopicsFromText(text) == extractTopicsFrom(text, 1)

\* Math.floor(maxTokens * 0.9)
chunkSizeOf(maxTokens) == (maxTokens * 9) \div 10

\* the reduce with a callback that leaves the sub-chunks out
RECURSIVE sumTokenCountWholeOnly(_, _)
sumTokenCountWholeOnly(chunks, k) ==
  IF k > Len(chunks) THEN 0
  ELSE (IF chunks[k].type = "semantic-split" THEN 0
        ELSE chunks[k].tokenCount)
       + sumTokenCountWholeOnly(chunks, k + 1)

\* chunks.reduce((sum, chunk) => sum + chunk.tokenCount, 0)
RECURSIVE sumTokenCount(_, _)
sumTokenCount(chunks, k) ==
  IF k > Len(chunks) THEN 0
  ELSE chunks[k].tokenCount + sumTokenCount(chunks, k + 1)

\* The object pushed for a chunk.  from and to are not fields of the
\* program: they record which characters of the chunked text the chunk
\* was built from.  A chunk without topics field has topics <<>>.
Chunk(index, currentChunk, type, topics, from, to) ==
  [index |-> index,
   content |-> trim(currentChunk),
   tokenCount |-> countTokens(currentChunk),
   type |-> type,
   topics |-> topics,
   from |-> from,
   to |-> to]

PieceLast(piece) == piece.at + Len(piece.text) - 1

\* an iteration that starts the new chunk empty, without the sentence that
\* did not fit
fixedStepDropsSentence(st, sentence, chunkSize) ==
  IF countTokens(st.currentChunk
                 \o (IF st.currentChunk # "" THEN " " ELSE "")
                 \o sentence.text) <= chunkSize
  THEN [st EXCEPT !.currentChunk = st.currentChunk
                                   \o (IF st.currentChunk # "" THEN " "
                                       ELSE "")
                                   \o sentence.text,
                  !.from = IF st.currentChunk # "" THEN @ ELSE sentence.at,
                  !.to = PieceLast(sentence)]
  ELSE [chunks |-> IF st.currentChunk # ""
                   THEN Append(st.chunks,
                               Chunk(st.chunkIndex, st.currentChunk, "fixed",
                                     <<>>, st.from, st.to))
                   ELSE st.chunks,
        chunkIndex |-> IF st.currentChunk # "" THEN st.chunkIndex + 1
                       ELSE st.chunkIndex,
        currentChunk |-> "",
        from |-> 0,
        to |-> 0]

\* one iteration of the loop of fixedChunking over the sentences; st holds
\* the locals chunks, currentChunk and chunkIndex
fixedStep(st, sentence, chunkSize) ==
  LET testChunk == st.currentChunk
                   \o (IF st.currentChunk # "" THEN " " ELSE "")
                   \o sentence.text
      tokenCount == countTokens(testChunk)
  IN  IF tokenCount <= chunkSize
      THEN [st EXCEPT !.currentChunk = testChunk,
                      !.from = IF st.currentChunk # "" THEN @ ELSE sentence.at,
                      !.to = PieceLast(sentence)]
      ELSE [chunks |->
              IF st.currentChunk # ""
              THEN Append(st.chunks,
                          Chunk(st.chunkIndex, st.currentChunk, "fixed", <<>>,
                                st.from, st.to))
              ELSE st.chunks,
            chunkIndex |->
              IF st.currentChunk # "" THEN st.chunkIndex + 1
              ELSE st.chunkIndex,
            currentChunk |-> sentence.text,
            from |-> sentence.at,
            to |-> PieceLast(sentence)]

RECURSIVE fixedLoop(_, _, _, _)
fixedLoop(st, sentences, k, chunkSize) ==
  IF k > Len(sentences) THEN st
  ELSE fixedLoop(fixedStep(st, sentences[k], chunkSize), sentences, k + 1,
                 chunkSize)

EmptyChunking ==
  [chunks |-> <<>>, chunkIndex |-> 0, currentChunk |-> "", from |-> 0,
   to |-> 0]

\* the chunks with the current chunk pushed if it is not empty
flushChunk(st, type, topics) ==
  IF st.currentChunk # ""
  THEN Append(st.chunks,
              Chunk(st.chunkIndex, st.currentChunk, type, topics, st.from,
                    st.to))
  ELSE st.chunks

\* the object returned by a chunking routine; calls is not a field of the
\* program: it records the chunking routines that ran
chunkingResult(chunks, calls) ==
  [chunks |-> chunks, totalTokens |-> sumTokenCount(chunks, 1),
   calls |-> calls]

fixedChunking(fullText, maxTokens) ==
  chunkingResult(
    flushChunk(fixedLoop(EmptyChunking, splitSentences(fullText), 1,
                         chunkSizeOf(maxTokens)),
               "fixed", <<>>),
    {"fixedChunking"})

\* the sub-chunks pushed with the index that fixedChunking gave them
RECURSIVE pushSubChunksOwnIndex(_, _, _, _, _)
pushSubChunksOwnIndex(chunks, subChunks, k, chunkIndex, offset) ==
  IF k > Len(subChunks) THEN chunks
  ELSE pushSubChunksOwnIndex(
         Append(chunks,
                [subChunks[k] EXCEPT !.type = "semantic-split",
                                     !.from = @ + offset,
                                     !.to = @ + offset]),
         subChunks, k + 1, chunkIndex + 1, offset)

\* the sub-chunks of an oversized section, pushed with the running index
\* and the tag 'semantic-split'
RECURSIVE pushSubChunks(_, _, _, _, _)
pushSubChunks(chunks, subChunks, k, chunkIndex, offset) ==
  IF k > Len(subChunks) THEN chunks
  ELSE pushSubChunks(
         Append(chunks,
                [subChunks[k] EXCEPT !.index = chunkIndex,
                                     !.type = "semantic-split",
                                     !.from = @ + offset,
                                     !.to = @ + offset]),
         subChunks, k + 1, chunkIndex + 1, offset)

\* the topics of the current chunk of semanticChunking
topicsOfCurrent(st) ==
  IF st.currentChunk # "" THEN extractTopicsFromText(st.currentChunk)
  ELSE <<>>

\* the index after the current chunk was pushed, if it was
indexAfterFlush(st) ==
  IF st.currentChunk # "" THEN st.chunkIndex + 1 ELSE st.chunkIndex

\* lines 369-379: the section alone is too large and is split
semanticSplit(st, section, flushed, index, subChunks) ==
  [chunks |-> pushSubChunks(flushed, subChunks, 1, index, section.at - 1),
   chunkIndex |-> index + Len(subChunks),
   currentChunk |-> "",
   from |-> 0,
   to |-> 0,
   calls |-> st.calls \cup {"fixedChunking"}]

\* one iteration of the loop of semanticChunking over the sections
semanticStep(st, section, chunkSize, maxTokens) ==
  LET testChunk == st.currentChunk
                   \o (IF st.currentChunk # "" THEN "\n\n" ELSE "")
                   \o section.text
  IN  IF countTokens(testChunk) <= chunkSize
      THEN [st EXCEPT !.currentChunk = testChunk,
                      !.from = IF st.currentChunk # "" THEN @ ELSE section.at,
                      !.to = PieceLast(section)]
      ELSE IF countTokens(section.text) > chunkSize
      THEN semanticSplit(st, section,
                         flushChunk(st, "semantic", topicsOfCurrent(st)),
                         indexAfterFlush(st),
                         fixedChunking(section.text, maxTokens).chunks)
      ELSE [chunks |-> flushChunk(st, "semantic", topicsOfCurrent(st)),
            chunkIndex |-> indexAfterFlush(st),
            currentChunk |-> section.text,
            from |-> section.at,
            to |-> PieceLast(section),
            calls |-> st.calls]

RECURSIVE semanticLoop(_, _, _, _, _)
semanticLoop(st, sections, k, chunkSize, maxTokens) ==
  IF k > Len(sections) THEN st
  ELSE semanticLoop(semanticStep(st, sections[k], chunkSize, maxTokens),
                    sections, k + 1, chunkSize, maxTokens)

\* lines 352-367: the iteration for the section reaches the await of line
\* 369, the section is too large for the chunk and too large by itself
splitsAt(st, section, chunkSize) ==
  /\ countTokens(st.currentChunk
                 \o (IF st.currentChunk # "" THEN "\n\n" ELSE "")
                 \o section.text) > chunkSize
  /\ countTokens(section.text) > chunkSize

\* lines 357-369: the current chunk is pushed and fixedChunking is called
\* for the section; currentChunk is emptied after the await
awaitingSplit(st) ==
  [st EXCEPT !.chunks = flushChunk(st, "semantic", topicsOfCurrent(st)),
             !.chunkIndex = indexAfterFlush(st),
             !.calls = @ \cup {"fixedChunking"}]

\* the loop from the k-th section on, up to the next await of line 369 or
\* to the end of the sections
RECURSIVE runToAwait(_, _, _, _, _)
runToAwait(st, sections, k, chunkSize, maxTokens) ==
  IF k > Len(sections) THEN [st |-> st, k |-> k]
  ELSE IF splitsAt(st, sections[k], chunkSize)
  THEN [st |-> awaitingSplit(st), k |-> k]
  ELSE runToAwait(semanticStep(st, sections[k], chunkSize, maxTokens),
                  sections, k + 1, chunkSize, maxTokens)

\* lines 386-399: the last chunk and the returned object
semanticFinish(st) ==
  chunkingResult(flushChunk(st, "semantic", topicsOfCurrent(st)), st.calls)

semanticChunking(fullText, maxTokens) ==
  semanticFinish(
    semanticLoop([chunks |-> <<>>, chunkIndex |-> 0, currentChunk |-> "",
                  from |-> 0, to |-> 0, calls |-> {"semanticChunking"}],
                 splitSections(fullText), 1, chunkSizeOf(maxTokens),
                 maxTokens))

temporalChunking(fullText, maxTokens) ==
  [semanticChunking(fullText, maxTokens) EXCEPT
     !.calls = @ \cup {"temporalChunking"}]

(***************************************************************************)
(* PriorityGrouper                                                         *)
(***************************************************************************)

highImportanceKeywords ==
  {"meeting", "call", "interview", "presentation", "decision", "important",
   "urgent", "deadline", "project", "client", "boss", "manager", "team",
   "problem", "issue", "solution", "plan", "strategy", "goal", "target"}

mediumImportanceKeywords ==
  {"discussion", "conversation", "email", "message", "update", "review",
   "feedback", "idea", "suggestion", "question", "answer", "explain"}

\* the table of extractTopics, in the order of its keys
topicKeywords ==
  << [topic |-> "work",
      keywords |-> {"work", "job", "office", "meeting", "project", "client",
                    "business"}],
     [topic |-> "personal",
      keywords |-> {"family", "friend", "personal", "home", "weekend"}],
     [topic |-> "health",
      keywords |-> {"health", "doctor", "exercise", "gym", "medical",
                    "wellness"}],
     [topic |-> "technology",
      keywords |-> {"computer", "software", "app", "website", "tech",
                    "digital"}],
     [topic |-> "travel",
      keywords |-> {"travel", "trip", "flight", "hotel", "vacation",
                    "visit"}],
     [topic |-> "food",
      keywords |-> {"food", "restaurant", "eat", "lunch", "dinner", "cook"}],
     [topic |-> "entertainment",
      keywords |-> {"movie", "music", "game", "show", "entertainment",
                    "fun"}] >>

containsKeywords(content, keywords) ==
  \E keyword \in keywords : includes(content, keyword)

RECURSIVE extractTopicsFromTable(_, _)
extractTopicsFromTable(content, k) ==
  IF k > Len(topicKeywords) THEN <<>>
  ELSE (IF containsKeywords(content, topicKeywords[k].keywords)
        THEN <<topicKeywords[k].topic>> ELSE <<>>)
       \o extractTopicsFromTable(content, k + 1)

extractTopics(content) == extractTopicsFromTable(content, 1)

extractTextContent(lifelog) ==
  trim((IF lifelog.title # "" THEN lifelog.title \o " " ELSE "")
       \o (IF lifelog.markdown # "" THEN lifelog.markdown \o " " ELSE "")
       \o (IF lifelog.content # "" THEN lifelog.content \o " " ELSE ""))

\* the priority with the medium test in front of the high test
priorityOfMediumFirst(content, wordCount) ==
  IF wordCount > 20 \/ containsKeywords(content, mediumImportanceKeywords)
  THEN "medium"
  ELSE IF wordCount > 50
          \/ containsKeywords(content, highImportanceKeywords)
  THEN "high"
  ELSE "low"

\* the priority chosen in the loop of groupByTopicsAndImportance
priorityOf(content, wordCount) ==
  IF wordCount > 50 \/ containsKeywords(content, highImportanceKeywords)
  THEN "high"
  ELSE IF wordCount > 20
          \/ containsKeywords(content, mediumImportanceKeywords)
  THEN "medium"
  ELSE "low"

\* { ...lifelog, topics, priority, wordCount }
enrich(lifelog) ==
  LET content == toLowerCase(extractTextContent(lifelog))
      wordCount == splitLength(content, " ")
  IN  [title |-> lifelog.title,
       markdown |-> lifelog.markdown,
       content |-> lifelog.content,
       startTime |-> lifelog.startTime,
       topics |-> extractTopics(content),
       priority |-> priorityOf(content, wordCount),
       wordCount |-> wordCount]

\* new Date(a.timestamp) - new Date(b.timestamp): a lifelog has the fields
\* of enrich and no field timestamp, new Date(undefined) is an invalid date
\* and the difference is NaN.  A number d is {d}, NaN is {}.
NaN == {}
sortByTime(a, b) ==
  IF "timestamp" \in DOMAIN a /\ "timestamp" \in DOMAIN b
  THEN {a.timestamp - b.timestamp}
  ELSE NaN

\* Array.prototype.sort takes a comparator result of NaN as +0
comparatorSays(v) == IF v = NaN THEN 0 ELSE CHOOSE d \in v : TRUE

\* Array.prototype.sort(sortByTime): a stable sort; x goes behind every
\* element that does not come after it
RECURSIVE insertSorted(_, _)
insertSorted(sorted, x) ==
  IF sorted = <<>> THEN <<x>>
  ELSE IF comparatorSays(sortByTime(sorted[Len(sorted)], x)) <= 0
    THEN Append(sorted, x)
  ELSE Append(insertSorted(SubSeq(sorted, 1, Len(sorted) - 1), x),
              sorted[Len(sorted)])

RECURSIVE sortBand(_, _)
sortBand(band, k) ==
  IF k = 0 THEN <<>> ELSE insertSorted(sortBand(band, k - 1), band[k])

RECURSIVE enrichAll(_, _)
enrichAll(lifelogs, k) ==
  IF k > Len(lifelogs) THEN <<>>
  ELSE <<enrich(lifelogs[k])>> \o enrichAll(lifelogs, k + 1)

bandOf(enriched, priority) ==
  LET band == SelectSeq(enriched, LAMBDA e : e.priority = priority)
  IN  sortBand(band, Len(band))

\* the list of the caller with every entry enriched in place
entriesEnrichedInPlace(lifelogs) == enrichAll(lifelogs, 1)

\* the list of the caller after groupByTopicsAndImportance: every entry is
\* copied by the spread of line 603 and the arrays that are filled and
\* sorted are local (lines 576-578 and 626-628)
entriesAfterGrouping(lifelogs) == lifelogs

groupByTopicsAndImportance(lifelogs) ==
  LET enriched == enrichAll(lifelogs, 1)
  IN  [highPriority |-> bandOf(enriched, "high"),
       mediumPriority |-> bandOf(enriched, "medium"),
       lowPriority |-> bandOf(enriched, "low")]

(***************************************************************************)
(* ConsolidatedExporter                                                    *)
(***************************************************************************)

formatLifelogEntry(lifelog, includeTimestamps, includeSpeakers, summarize) ==
  LET ts == IF includeTimestamps /\ lifelog.startTime # 0
            THEN "[" \o toLocaleString(lifelog.startTime) \o "] " ELSE ""
      head == IF lifelog.title # ""
              THEN "## " \o lifelog.title \o "\n\n" ELSE ""
      body == IF lifelog.markdown # ""
              THEN (IF summarize
                    THEN lightSummarize(lifelog.markdown,
                                        JsBool(includeSpeakers))
                    ELSE lifelog.markdown) \o "\n\n"
              ELSE ""
  IN  trim(ts \o head \o body)

\* the cumulative ceilings of the three bands, in percent of maxTokens
HighCeiling == 85
MediumCeiling == 95
LowCeiling == 98

\* a comparison that lets every item pass
AtMostAnything(tokens, pct, maxTokens) == tokens >= 0

\* the comparison against the whole budget instead of the ceiling
AtMostBudget(tokens, pct, maxTokens) == tokens <= maxTokens

\* tokens <= maxTokens * (pct / 100)
AtMostPct(tokens, pct, maxTokens) == 100 * tokens <= pct * maxTokens

\* tokens < maxTokens * (pct / 100)
BelowPct(tokens, pct, maxTokens) == 100 * tokens < pct * maxTokens

countProcessedEntries(groupedContent) ==
  Len(groupedContent.highPriority)
  + (Len(groupedContent.mediumPriority) * 8) \div 10
  + (Len(groupedContent.lowPriority) * 3) \div 10

RECURSIVE NatToString(_)
NatToString(n) ==
  IF n < 10 THEN Ch(Digits, n + 1)
  ELSE NatToString(n \div 10) \o Ch(Digits, (n % 10) + 1)

\* the footer appended when the content was truncated
summaryFooter(remainingEntries) ==
  "\n## Summary\n\n"
  \o "Note: " \o NatToString(remainingEntries)
  \o " additional entries were summarized due to token limits. "
  \o "These included routine activities and brief interactions.\n\n"

RECURSIVE dedupe(_, _)
\* [...new Set(topics)]: the first occurrence of each topic, in order
dedupe(topics, k) ==
  IF k = 0 THEN <<>>
  ELSE LET before == dedupe(topics, k - 1)
       IN  IF \E j \in 1..Len(before) : before[j] = topics[k] THEN before
           ELSE Append(before, topics[k])

(***************************************************************************)
(* DateUtils                                                               *)
(***************************************************************************)

\* Instants are hours since 2024-03-08T00:00Z.  The calendar runs from
\* 2024-03-08 (day 1) to 2024-04-09 (day CalendarDays).
CalendarDays == 33
DaysOfMarch == 31 - 7

TwoDigits(n) == Ch(Digits, (n \div 10) + 1) \o Ch(Digits, (n % 10) + 1)

\* the date string YYYY-MM-DD of a day of the calendar
DateString(day) ==
  IF day <= DaysOfMarch THEN "2024-03-" \o TwoDigits(day + 7)
  ELSE "2024-04-" \o TwoDigits(day - DaysOfMarch)

CalendarDates == {DateString(day) : day \in 1..CalendarDays}

\* new Date("YYYY-MM-DD"): midnight UTC of that day
parseDate(dateString) ==
  24 * ((CHOOSE day \in 1..CalendarDays : DateString(day) = dateString) - 1)

\* date.toISOString().split('T')[0]: the UTC day of an instant
toISODate(instant) == DateString((instant \div 24) + 1)

\* The time zones of the host: the offset from UTC in hours before and from
\* the instant at which the clocks change.  New York goes to daylight time
\* on 2024-03-10T07:00Z, Sydney leaves it on 2024-04-06T16:00Z.
UTC == [name |-> "UTC", before |-> 0, after |-> 0, change |-> 0]

HostZones ==
  {UTC,
   [name |-> "America/New_York", before |-> -5, after |-> -4, change |-> 55],
   [name |-> "Australia/Sydney", before |-> 11, after |-> 10, change |-> 712]}

offsetAt(zone, instant) ==
  IF instant < zone.change THEN zone.before ELSE zone.after

\* the instant at which the clocks of the zone show the wall time
instantOfWallTime(zone, wall) ==
  CHOOSE instant \in {wall - zone.before, wall - zone.after} :
    instant + offsetAt(zone, instant) = wall

\* currentDate.setDate(currentDate.getDate() + 1): the same time of day on
\* the next day of the host's calendar
nextLocalDay(zone, instant) ==
  instantOfWallTime(zone, instant + offsetAt(zone, instant) + 24)

\* the loop of lines 19-22
RECURSIVE datesFrom(_, _, _)
datesFrom(zone, currentDate, end) ==
  IF currentDate <= end
  THEN <<toISODate(currentDate)>>
       \o datesFrom(zone, nextLocalDay(zone, currentDate), end)
  ELSE <<>>

\* getDateRange(startDate, endDate) on a host in the zone: the list that is
\* returned or the error that is thrown
getDateRange(zone, startDate, endDate) ==
  IF parseDate(startDate) > parseDate(endDate)
  THEN [thrown |-> "Start date cannot be after end date"]
  ELSE [returned |-> datesFrom(zone, parseDate(startDate), parseDate(endDate))]

(***************************************************************************)
(* Inputs                                                                  *)
(***************************************************************************)

\* ten words, each of them one token of the vocabulary
TenWords == "a b c d e f g h i j."

Lifelog(title, markdown, startTime) ==
  [title |-> title, markdown |-> markdown, content |-> "",
   startTime |-> startTime]

\* high by keyword ("meeting", "plan"), with a medium keyword ("review"),
\* a speaker prefix and a short line
EntryStandup ==
  Lifelog("Team",
          "[Bob]: We hold a meeting today. Review the plan.\nok yes.", 2)

\* medium by keyword ("email"), topic health
EntryGym == Lifelog("Health", "Sent an email about the gym hours to her.", 1)

\* low, 20 words, topic food, with a special token of the tokenizer
EntryLunch ==
  Lifelog("",
          "The lunch was good here today! <|endoftext|> So it goes. "
          \o TenWords, 3)

\* low, a heading and a speaker prefix inside the body, topic personal
EntryNotes ==
  Lifelog("Notes",
          "## Home\n[Ann]: We were at home all day.\n\n\n\nNothing else.", 1)

\* low: 10 words
EntryWords10 == Lifelog("", TenWords, 2)

\* medium by word count alone: 30 words
EntryWords30 == Lifelog("", TenWords \o " " \o TenWords \o " " \o TenWords, 1)

\* high by word count alone: 60 words
EntryWords60 ==
  Lifelog("", TenWords \o " " \o TenWords \o " " \o TenWords \o " "
              \o TenWords \o " " \o TenWords \o " " \o TenWords, 3)

\* medium by word count alone: 21 words, no start time
EntryWords21 == Lifelog("", TenWords \o " " \o TenWords \o " k", 0)

\* medium by word count alone: 50 words
EntryWords50 ==
  Lifelog("", TenWords \o " " \o TenWords \o " " \o TenWords \o " "
              \o TenWords \o " " \o TenWords, 4)

\* high by word count alone: 51 words
EntryWords51 ==
  Lifelog("", TenWords \o " " \o TenWords \o " " \o TenWords \o " "
              \o TenWords \o " " \o TenWords \o " k", 5)

\* a special token of the tokenizer and nothing else of weight, no title
EntryToken == Lifelog("", "<|endoftext|> is here.", 1)

\* 40 words of one letter, then a heading and a sentence on one line
EntryLetters ==
  Lifelog("Letters",
          TenWords \o " " \o TenWords \o " " \o TenWords \o " " \o TenWords
          \o "\n## End of the day, we went home by the lake after it.", 2)

\* the entries of the lists given to the two exports
Entries == {EntryStandup, EntryGym, EntryLunch, EntryNotes}

\* a list whose second section, the 40 words, follows a section with a
\* special token
TokenLists == {<<EntryToken, EntryLetters>>}

\* the entries of the lists given to the grouper alone
GrouperEntries ==
  Entries \cup {EntryWords10, EntryWords21, EntryWords30, EntryWords50,
                EntryWords51, EntryWords60}

\* longest entry list
MaxEntries == 2

ListsOf(entries) == UNION {[1..n -> entries] : n \in 0..MaxEntries}

\* token budgets
Budgets == {5, 21, 24, 40, 400}

\* texts given to countTokens; the last five make encode throw
TokenTexts ==
  {"", " ", "a", "\n", "Hello world", "We met today. It was fine!",
   "[Bob]: ok then, 12 of them.\n\nYes?",
   "<|endoftext|>", "ab <|endoftext|>", "abc <|endoftext|>",
   "<|endofprompt|> and <|fim_prefix|>",
   "We met. <|endoftext|> It was fine."}

\* arguments of countTokens that are no strings
NonStrings ==
  {JsValue("undefined", "undefined"), JsValue("object", "null"),
   JsValue("number", "0"), JsValue("number", "42"),
   JsValue("number", "NaN"), JsValue("boolean", "false"),
   JsValue("boolean", "true"), JsValue("object", "['a b c']"),
   JsValue("object", "{length: 8}")}

TokenArguments == {JsString(t) : t \in TokenTexts} \cup NonStrings

NoText == JsValue("undefined", "undefined")

\* texts given to the summarizer tiers: lines of 7, 14, 15 and 16
\* characters, speaker prefixes, runs of blank lines, sentences with and
\* without keywords, short and long; in the last text every sentence has
\* an important keyword, the first has 41 characters, the next three 40,
\* the last 30 and the only high-priority keyword
SummaryTexts ==
  {"", "ok yes.", "fourteen chars", "exactly 15 char", "sixteen chars ok",
   "We met today at noon.\nok yes.\nexactly 15 char\nfourteen chars\nsixteen chars ok",
   "[Bob]: We hold a meeting today. Review the plan.\nok yes.",
   "## Home\n[Ann]: We were at home all day.\n\n\n\nNothing else.",
   "We decided to move the project deadline to next week because the team is busy. Nothing else happened at all today. ok.",
   "The weather was nice in town. We walked along the river bank. Dinner was served late again! The cat slept on the sofa.",
   "We agreed on the next steps for the launch. The meeting about the budget is urgent? [Ann]: I think the old plan was a lot better than this one is.",
   "At noon the whole family went for a long walk in the hills around the lake.\n\n \n\nIt rained.",
   "The weather was nice in town today. Our next goal is set. The cat slept on the sofa while we sat in the yard.",
   "The cat slept on the sofa while we sat in the yard all day. My brother cooked a very large pot of soup for the whole family. The old dog ran around the garden and barked at every bird it saw. We watched the rain fall on the roof of the little red barn outside.",
   "Our project plan for the garden is on ice. The goal of the trip is to see the lakes. A problem with the car kept us in a town. We follow the old road up to the red hut. The rent for May is now urgent."}

\* texts handed to extractTopicsFromText: the text of the test, headings
\* that repeat or end in blanks, lines that only contain "## " further in,
\* "##" without a blank, and headings without text
TopicTexts ==
  {"", "## Work\nDiscuss project",
   "## Work\n\nWe met.\n\n## Home  \nNothing.\n## Work",
   "[1/1/2024, 12:01:00 AM] ## Work\nsee ## Home", "##Work\n# Home",
   "## \nDiscuss project", "## Work\n## "}

Summarizers == {"lightSummarize", "moderateSummarize", "aggressiveSummarize"}

ChunkStrategies == {"fixed", "semantic", "temporal"}

\* getDateRange is called with dates at most MaxSpan days apart
MaxSpan == 2

Distance(a, b) == IF a <= b THEN b - a ELSE a - b

\* the requests of batch-process: ranges across the change of the clocks
\* in New York, a single day, a range in reverse order
BatchRanges ==
  {<<"2024-03-09", "2024-03-11">>, <<"2024-03-12", "2024-03-12">>,
   <<"2024-03-11", "2024-03-09">>}

\* outputFormat and maxTokensPerDay of a request
BatchFormats == {<<"markdown", 8000>>, <<"json", 8000>>, <<"json", 5>>}

\* outputFormat and maxTokens of a request of /api/process; a format that
\* is neither 'markdown' nor 'json' gives plain text
ProcessFormats ==
  {<<"markdown", 8000>>, <<"json", 8000>>, <<"json", 5>>, <<"text", 8000>>,
   <<"text", 5>>}

\* the readings of the clock when the response is written
Instants == {"2024-03-12T09:00:00.000Z", "2024-03-12T21:30:00.000Z"}

SummarizeLevels == {"low", "medium", "high"}

\* summarizeLevel is varied with the largest budget and is "low" with the
\* others
LevelsWith(budget) == IF budget = 400 THEN SummarizeLevels ELSE {"low"}

(***************************************************************************)
(* State                                                                   *)
(***************************************************************************)

VARIABLES
  op,                  \* the exported function that is called
  lifelogs,            \* its argument lifelogs
  maxTokens,           \* options.maxTokens
  includeTimestamps,   \* options.includeTimestamps
  includeSpeakers,     \* options.includeSpeakers
  chunkStrategy,       \* options.chunkStrategy
  summarizeLevel,      \* options.summarizeLevel
  text,                \* the argument of a function of one text
  startDate,           \* getDateRange, batch-process: startDate
  endDate,             \* getDateRange, batch-process: endDate
  hostZone,            \* the time zone of the host
  apiKey,              \* batch-process: the header x-api-key
  outputFormat,        \* batch-process: outputFormat
  dates,               \* batch-process: dates
  fetches,             \* batch-process: what getLifelogsForDate gave so far
  results,             \* batch-process: results
  previous,            \* what the caller remembers of an earlier call
  pc,                  \* position in the called function
  cleanedContent,      \* optimizeForChatGPT: cleanedContent
  totalTokens,         \* local totalTokens of the called function
  calls,               \* the chunking routines that were invoked
  chunking,            \* semanticChunking: chunks, currentChunk, chunkIndex
  optimizedResult,     \* optimizeForChatGPT: optimizedResult
  groupedContent,      \* createConsolidatedExport: groupedContent
  idx,                 \* position of the running for loop in its band
  consolidatedContent, \* createConsolidatedExport: consolidatedContent
  topics,              \* createConsolidatedExport: topics
  included,            \* the items that were appended, per band
  result               \* the returned object

vars ==
  <<op, lifelogs, maxTokens, includeTimestamps, includeSpeakers, chunkStrategy,
    summarizeLevel, text, startDate, endDate, hostZone, apiKey, outputFormat,
    dates, fetches, results, previous, pc, cleanedContent, totalTokens, calls,
    chunking, optimizedResult, groupedContent, idx, consolidatedContent,
    topics, included, result>>

options ==
  <<op, maxTokens, includeTimestamps, includeSpeakers, chunkStrategy,
    summarizeLevel, text, startDate, endDate, hostZone, apiKey, outputFormat>>

inputs == <<lifelogs, options>>

batchState == <<dates, fetches, results>>

NoGroups == [highPriority |-> <<>>, mediumPriority |-> <<>>,
             lowPriority |-> <<>>]

NoneIncluded == [high |-> {}, medium |-> {}, low |-> {}]

NoResult == [strategy |-> "none"]

\* no chunking routine is running, none has returned
NoChunking ==
  [chunks |-> <<>>, chunkIndex |-> 0, currentChunk |-> "", from |-> 0,
   to |-> 0, calls |-> {}]

NoChunks == [chunks |-> <<>>, totalTokens |-> 0, calls |-> {}]

\* A call of one of the three functions.  chunkStrategy is an option of
\* optimizeForChatGPT alone, and groupByTopicsAndImportance reads none of
\* the options: there they have their default values.
\* the calls that are no request for dates
NoRequest ==
  /\ startDate = Undefined
  /\ endDate = Undefined
  /\ hostZone = UTC
  /\ apiKey = Undefined
  /\ outputFormat = "markdown"

\* the calls without entries, options and text
NoArguments ==
  /\ lifelogs = <<>>
  /\ maxTokens = 8000
  /\ includeTimestamps = TRUE
  /\ includeSpeakers = TRUE
  /\ chunkStrategy = "semantic"
  /\ summarizeLevel = "low"
  /\ text = NoText

Init ==
  /\ \/ /\ op = "optimizeForChatGPT"
        /\ lifelogs \in ListsOf(Entries) \cup TokenLists
        /\ maxTokens \in Budgets
        /\ includeTimestamps \in BOOLEAN
        /\ includeSpeakers \in BOOLEAN
        /\ chunkStrategy \in ChunkStrategies
        /\ summarizeLevel \in LevelsWith(maxTokens)
        /\ text = NoText
        /\ NoRequest
     \/ /\ op = "createConsolidatedExport"
        /\ lifelogs \in ListsOf(Entries)
        /\ maxTokens \in Budgets
        /\ includeTimestamps \in BOOLEAN
        /\ includeSpeakers \in BOOLEAN
        /\ chunkStrategy = "semantic"
        /\ summarizeLevel = "low"
        /\ text = NoText
        /\ NoRequest
     \/ /\ op = "groupByTopicsAndImportance"
        /\ lifelogs \in ListsOf(GrouperEntries)
        /\ maxTokens = 120000
        /\ includeTimestamps = TRUE
        /\ includeSpeakers = TRUE
        /\ chunkStrategy = "semantic"
        /\ summarizeLevel = "low"
        /\ text = NoText
        /\ NoRequest
     \/ /\ op \in Summarizers
        /\ text \in {JsString(t) : t \in SummaryTexts}
        /\ includeSpeakers \in BOOLEAN
        /\ lifelogs = <<>>
        /\ maxTokens = 8000
        /\ includeTimestamps = TRUE
        /\ chunkStrategy = "semantic"
        /\ summarizeLevel = "low"
        /\ NoRequest
     \/ /\ op = "extractTopicsFromText"
        /\ text \in {JsString(t) : t \in TopicTexts}
        /\ lifelogs = <<>>
        /\ maxTokens = 8000
        /\ includeTimestamps = TRUE
        /\ includeSpeakers = TRUE
        /\ chunkStrategy = "semantic"
        /\ summarizeLevel = "low"
        /\ NoRequest
     \/ /\ op = "countTokens"
        /\ text \in TokenArguments
        /\ lifelogs = <<>>
        /\ maxTokens = 8000
        /\ includeTimestamps = TRUE
        /\ includeSpeakers = TRUE
        /\ chunkStrategy = "semantic"
        /\ summarizeLevel = "low"
        /\ NoRequest
     \/ /\ op = "getDateRange"
        /\ startDate \in CalendarDates
        /\ endDate \in CalendarDates
        /\ Distance(parseDate(startDate), parseDate(endDate)) <= 24 * MaxSpan
        /\ hostZone \in HostZones
        /\ apiKey = Undefined
        /\ outputFormat = "markdown"
        /\ NoArguments
     \/ /\ op = "batch-process"
        /\ \E range \in BatchRanges :
              startDate = range[1] /\ endDate = range[2]
        /\ hostZone \in HostZones
        /\ apiKey \in {Undefined, "key"}
        /\ \E format \in BatchFormats :
              outputFormat = format[1] /\ maxTokens = format[2]
        /\ lifelogs = <<>>
        /\ includeTimestamps = TRUE
        /\ includeSpeakers = TRUE
        /\ chunkStrategy = "semantic"
        /\ summarizeLevel = "low"
        /\ text = NoText
     \/ /\ op = "process"
        /\ startDate = "2024-03-12"
        /\ endDate = Undefined
        /\ hostZone = UTC
        /\ apiKey \in {Undefined, "key"}
        /\ \E format \in ProcessFormats :
              outputFormat = format[1] /\ maxTokens = format[2]
        /\ lifelogs = <<>>
        /\ includeTimestamps = TRUE
        /\ includeSpeakers \in BOOLEAN
        /\ chunkStrategy = "semantic"
        /\ summarizeLevel = "medium"
        /\ text = NoText
  /\ dates = <<>>
  /\ fetches = <<>>
  /\ results = <<>>
  /\ previous = NoResult
  /\ pc = "start"
  /\ cleanedContent = [fullText |-> "",
                       metadata |-> [totalEntries |-> 0, topics |-> <<>>]]
  /\ totalTokens = 0
  /\ calls = {}
  /\ chunking = NoChunking
  /\ optimizedResult = NoChunks
  /\ groupedContent = NoGroups
  /\ idx = 0
  /\ consolidatedContent = ""
  /\ topics = <<>>
  /\ included = NoneIncluded
  /\ result = NoResult

(***************************************************************************)
(* optimizeForChatGPT                                                      *)
(***************************************************************************)

\* lines 46-62: the call has its own locals; extract the content and count
\* its tokens.  No chunking routine has been invoked and optimizedResult
\* (line 75) has no value yet
ExtractContent ==
  /\ op = "optimizeForChatGPT"
  /\ pc = "start"
  /\ LET cleaned == extractAndCleanContent(lifelogs, includeTimestamps,
                                           includeSpeakers)
     IN  /\ cleanedContent' = cleaned
         /\ totalTokens' = countTokens(cleaned.fullText)
  /\ calls' = {}
  /\ chunking' = NoChunking
  /\ optimizedResult' = NoChunks
  /\ pc' = "extracted"
  /\ UNCHANGED <<inputs, batchState, previous, groupedContent, idx,
                 consolidatedContent, topics, included, result>>

\* the object returned with the length of the text as its token count
completeResultByLength(cleaned, total) ==
  [strategy |-> "complete",
   tokenCount |-> Len(cleaned.fullText),
   content |-> cleaned.fullText,
   metadata |-> cleaned.metadata,
   chunks |-> Null]

\* the object returned at lines 66-72
completeResult(cleaned, total) ==
  [strategy |-> "complete",
   tokenCount |-> total,
   content |-> cleaned.fullText,
   metadata |-> cleaned.metadata,
   chunks |-> Null]

\* lines 64-73: the content fits
ReturnComplete ==
  /\ pc = "extracted"
  /\ totalTokens <= maxTokens
  /\ result' = completeResult(cleanedContent, totalTokens)
  /\ pc' = "done"
  /\ UNCHANGED <<inputs, batchState, previous, cleanedContent, totalTokens,
                 calls, chunking, optimizedResult, groupedContent, idx,
                 consolidatedContent, topics, included>>

\* the switch on chunkStrategy, lines 78-89
chunkBy(strategy, fullText, budget) ==
  IF strategy = "semantic" THEN semanticChunking(fullText, budget)
  ELSE IF strategy = "temporal" THEN temporalChunking(fullText, budget)
  ELSE fixedChunking(fullText, budget)

\* the object returned at lines 91-98; the ratio is kept as a fraction
chunkedResult(optimized, strategy, total, metadata) ==
  [strategy |-> strategy,
   originalTokens |-> total,
   optimizedTokens |-> optimized.totalTokens,
   compressionRatio |->
     [num |-> total - optimized.totalTokens, den |-> total],
   chunks |-> optimized.chunks,
   metadata |-> metadata]

\* the routines called by the switch of lines 78-89 before any of them
\* awaits
calledFirst(strategy) ==
  IF strategy = "semantic" THEN {"semanticChunking"}
  ELSE IF strategy = "temporal" THEN {"temporalChunking", "semanticChunking"}
  ELSE {"fixedChunking"}

\* semanticChunking has run up to an await of line 369 or to its end: at
\* the await the locals are kept, at the end the routine has returned
SemanticAt(run, sections) ==
  IF run.k > Len(sections)
  THEN /\ optimizedResult' = semanticFinish(run.st)
       /\ chunking' = run.st
       /\ calls' = run.st.calls
       /\ idx' = 0
       /\ pc' = "awaited"
  ELSE /\ chunking' = run.st
       /\ calls' = run.st.calls
       /\ idx' = run.k
       /\ pc' = "split"
       /\ optimizedResult' = optimizedResult

\* lines 75-89: the chunking routine is called and runs until it awaits
\* or returns; optimizeForChatGPT awaits it
CallChunking ==
  /\ pc = "extracted"
  /\ ~(totalTokens <= maxTokens)
  /\ IF chunkStrategy \in {"semantic", "temporal"}
     THEN SemanticAt(
            runToAwait([chunks |-> <<>>, chunkIndex |-> 0,
                        currentChunk |-> "", from |-> 0, to |-> 0,
                        calls |-> calledFirst(chunkStrategy)],
                       splitSections(cleanedContent.fullText), 1,
                       chunkSizeOf(maxTokens), maxTokens),
            splitSections(cleanedContent.fullText))
     ELSE /\ optimizedResult' = fixedChunking(cleanedContent.fullText,
                                              maxTokens)
          /\ calls' = calledFirst(chunkStrategy)
          /\ pc' = "awaited"
          /\ UNCHANGED <<chunking, idx>>
  /\ UNCHANGED <<inputs, batchState, previous, cleanedContent, totalTokens,
                 groupedContent, consolidatedContent, topics, included,
                 result>>

\* lines 369-378: fixedChunking has resolved; its sub-chunks are pushed and
\* the loop goes on to the next await or to the end of the routine
ResumeChunking ==
  /\ pc = "split"
  /\ SemanticAt(
       runToAwait(
         semanticSplit(chunking,
                       splitSections(cleanedContent.fullText)[idx],
                       chunking.chunks, chunking.chunkIndex,
                       fixedChunking(
                         splitSections(cleanedContent.fullText)[idx].text,
                         maxTokens).chunks),
         splitSections(cleanedContent.fullText), idx + 1,
         chunkSizeOf(maxTokens), maxTokens),
       splitSections(cleanedContent.fullText))
  /\ UNCHANGED <<inputs, batchState, previous, cleanedContent, totalTokens,
                 groupedContent, consolidatedContent, topics, included,
                 result>>

\* lines 91-98: the chunking routine has resolved, the result is built
ReturnChunked ==
  /\ pc = "awaited"
  /\ result' = chunkedResult(optimizedResult, chunkStrategy, totalTokens,
                             cleanedContent.metadata)
  /\ pc' = "done"
  /\ UNCHANGED <<inputs, batchState, previous, cleanedContent, totalTokens,
                 calls, chunking, optimizedResult, groupedContent, idx,
                 consolidatedContent, topics, included>>

(***************************************************************************)
(* groupByTopicsAndImportance                                              *)
(***************************************************************************)

\* lines 575-630
GroupAlone ==
  /\ op = "groupByTopicsAndImportance"
  /\ pc = "start"
  /\ groupedContent' = groupByTopicsAndImportance(lifelogs)
  /\ lifelogs' = entriesAfterGrouping(lifelogs)
  /\ pc' = "done"
  /\ UNCHANGED <<options, batchState, previous, cleanedContent, totalTokens,
                 calls, chunking, optimizedResult, idx, consolidatedContent,
                 topics, included, result>>

(***************************************************************************)
(* createConsolidatedExport                                                *)
(***************************************************************************)

HighHeading == "## Key Activities & Important Conversations\n\n"
MediumHeading == "## Regular Activities & Conversations\n\n"
LowHeading == "## Background Activities\n\n"

\* the running total kept from call to call, as a field of the instance
\* would be
GroupEntriesKeepsTotal ==
  /\ op = "createConsolidatedExport"
  /\ pc = "start"
  /\ groupedContent' = groupByTopicsAndImportance(lifelogs)
  /\ consolidatedContent' = ""
  /\ totalTokens' = totalTokens
  /\ topics' = <<>>
  /\ idx' = 0
  /\ included' = NoneIncluded
  /\ lifelogs' = entriesAfterGrouping(lifelogs)
  /\ pc' = "high"
  /\ UNCHANGED <<options, batchState, previous, cleanedContent, calls,
                 chunking, optimizedResult, result>>

\* lines 421-439: the call has its own locals consolidatedContent,
\* totalTokens and topics, and nothing is appended yet
GroupEntries ==
  /\ op = "createConsolidatedExport"
  /\ pc = "start"
  /\ groupedContent' = groupByTopicsAndImportance(lifelogs)
  /\ consolidatedContent' = ""
  /\ totalTokens' = 0
  /\ topics' = <<>>
  /\ idx' = 0
  /\ included' = NoneIncluded
  /\ lifelogs' = entriesAfterGrouping(lifelogs)
  /\ pc' = "high"
  /\ UNCHANGED <<options, batchState, previous, cleanedContent, calls,
                 chunking, optimizedResult, result>>

\* line 442-443: the high section is opened if the band is not empty
EnterHigh ==
  /\ pc = "high"
  /\ idx = 0
  /\ IF Len(groupedContent.highPriority) > 0
     THEN /\ consolidatedContent' = consolidatedContent \o HighHeading
          /\ idx' = 1
          /\ pc' = pc
     ELSE /\ pc' = "medium"
          /\ UNCHANGED <<consolidatedContent, idx>>
  /\ UNCHANGED <<inputs, batchState, previous, cleanedContent, totalTokens,
                 calls, chunking, optimizedResult, groupedContent, topics,
                 included, result>>

\* lines 444-453: one iteration of the loop over the high band
HighItem ==
  /\ pc = "high"
  /\ idx >= 1
  /\ LET item == groupedContent.highPriority[idx]
         itemContent == formatLifelogEntry(item, includeTimestamps,
                                           includeSpeakers, FALSE)
         itemTokens == countTokens(itemContent)
     IN  IF AtMostPct(totalTokens + itemTokens, HighCeiling, maxTokens)
         THEN /\ consolidatedContent' =
                   consolidatedContent \o itemContent \o "\n\n"
              /\ totalTokens' = totalTokens + itemTokens
              /\ topics' = topics \o item.topics
              /\ included' = [included EXCEPT !.high = @ \cup {idx}]
         ELSE UNCHANGED <<consolidatedContent, totalTokens, topics, included>>
  /\ IF idx < Len(groupedContent.highPriority)
     THEN idx' = idx + 1 /\ pc' = pc
     ELSE idx' = 0 /\ pc' = "medium"
  /\ UNCHANGED <<inputs, batchState, previous, cleanedContent, calls, chunking,
                 optimizedResult, groupedContent, result>>

\* lines 457-458
EnterMedium ==
  /\ pc = "medium"
  /\ idx = 0
  /\ IF /\ Len(groupedContent.mediumPriority) > 0
        /\ BelowPct(totalTokens, MediumCeiling, maxTokens)
     THEN /\ consolidatedContent' = consolidatedContent \o MediumHeading
          /\ idx' = 1
          /\ pc' = pc
     ELSE /\ pc' = "low"
          /\ UNCHANGED <<consolidatedContent, idx>>
  /\ UNCHANGED <<inputs, batchState, previous, cleanedContent, totalTokens,
                 calls, chunking, optimizedResult, groupedContent, topics,
                 included, result>>

\* lines 459-468: one iteration of the loop over the medium band
MediumItem ==
  /\ pc = "medium"
  /\ idx >= 1
  /\ LET item == groupedContent.mediumPriority[idx]
         itemContent == formatLifelogEntry(item, includeTimestamps,
                                           includeSpeakers, FALSE)
         itemTokens == countTokens(itemContent)
     IN  IF AtMostPct(totalTokens + itemTokens, MediumCeiling, maxTokens)
         THEN /\ consolidatedContent' =
                   consolidatedContent \o itemContent \o "\n\n"
              /\ totalTokens' = totalTokens + itemTokens
              /\ topics' = topics \o item.topics
              /\ included' = [included EXCEPT !.medium = @ \cup {idx}]
         ELSE UNCHANGED <<consolidatedContent, totalTokens, topics, included>>
  /\ IF idx < Len(groupedContent.mediumPriority)
     THEN idx' = idx + 1 /\ pc' = pc
     ELSE idx' = 0 /\ pc' = "low"
  /\ UNCHANGED <<inputs, batchState, previous, cleanedContent, calls, chunking,
                 optimizedResult, groupedContent, result>>

\* lines 472-473
EnterLow ==
  /\ pc = "low"
  /\ idx = 0
  /\ IF /\ Len(groupedContent.lowPriority) > 0
        /\ BelowPct(totalTokens, LowCeiling, maxTokens)
     THEN /\ consolidatedContent' = consolidatedContent \o LowHeading
          /\ idx' = 1
          /\ pc' = pc
     ELSE /\ pc' = "footer"
          /\ UNCHANGED <<consolidatedContent, idx>>
  /\ UNCHANGED <<inputs, batchState, previous, cleanedContent, totalTokens,
                 calls, chunking, optimizedResult, groupedContent, topics,
                 included, result>>

\* lines 474-482: one iteration of the loop over the low band; the item is
\* summarized and its topics are not collected
LowItem ==
  /\ pc = "low"
  /\ idx >= 1
  /\ LET item == groupedContent.lowPriority[idx]
         itemContent == formatLifelogEntry(item, includeTimestamps,
                                           includeSpeakers, TRUE)
         itemTokens == countTokens(itemContent)
     IN  IF AtMostPct(totalTokens + itemTokens, LowCeiling, maxTokens)
         THEN /\ consolidatedContent' =
                   consolidatedContent \o itemContent \o "\n\n"
              /\ totalTokens' = totalTokens + itemTokens
              /\ included' = [included EXCEPT !.low = @ \cup {idx}]
         ELSE UNCHANGED <<consolidatedContent, totalTokens, included>>
  /\ IF idx < Len(groupedContent.lowPriority)
     THEN idx' = idx + 1 /\ pc' = pc
     ELSE idx' = 0 /\ pc' = "footer"
  /\ UNCHANGED <<inputs, batchState, previous, cleanedContent, calls, chunking,
                 optimizedResult, groupedContent, topics, result>>

\* lines 487-488
remainingEntriesOf(entries, grouped) ==
  Len(entries) - countProcessedEntries(grouped)

\* lines 485-493: the footer is appended if the total reached 95% of the
\* budget and the estimate of the left out entries is positive
footerOf(total, budget, entries, grouped) ==
  IF /\ ~BelowPct(total, MediumCeiling, budget)
     /\ remainingEntriesOf(entries, grouped) > 0
  THEN summaryFooter(remainingEntriesOf(entries, grouped))
  ELSE ""

\* lines 485-501
ReturnConsolidated ==
  /\ pc = "footer"
  /\ LET content == consolidatedContent
                    \o footerOf(totalTokens, maxTokens, lifelogs,
                                groupedContent)
     IN  /\ consolidatedContent' = content
         /\ result' = [content |-> content,
                       tokenCount |-> totalTokens,
                       strategy |-> IF totalTokens <= maxTokens
                                    THEN "consolidated" ELSE "prioritized",
                       topics |-> dedupe(topics, Len(topics)),
                       originalEntries |-> Len(lifelogs)]
  /\ pc' = "done"
  /\ UNCHANGED <<inputs, batchState, previous, cleanedContent, totalTokens,
                 calls, chunking, optimizedResult, groupedContent, idx, topics,
                 included>>

(***************************************************************************)
(* Functions of one text                                                   *)
(***************************************************************************)

locals ==
  <<cleanedContent, totalTokens, calls, chunking, optimizedResult,
    groupedContent, idx, consolidatedContent, topics, included>>

\* lines 31-39
CallCountTokens ==
  /\ op = "countTokens"
  /\ pc = "start"
  /\ result' = [returned |-> countTokensOf(text)]
  /\ pc' = "done"
  /\ UNCHANGED <<inputs, batchState, previous, locals>>

(***************************************************************************)
(* DateUtils.getDateRange and POST /api/batch-process                      *)
(***************************************************************************)

CallGetDateRange ==
  /\ op = "getDateRange"
  /\ pc = "start"
  /\ result' = getDateRange(hostZone, startDate, endDate)
  /\ pc' = "done"
  /\ UNCHANGED <<inputs, batchState, previous, locals>>

\* optimizeForChatGPT, lines 64-98, from the extracted content on
optimizedWith(cleaned, total, budget, strategy) ==
  IF total <= budget THEN completeResult(cleaned, total)
  ELSE chunkedResult(chunkBy(strategy, cleaned.fullText, budget), strategy,
                     total, cleaned.metadata)

optimizedFrom(cleaned, budget, strategy) ==
  optimizedWith(cleaned, countTokens(cleaned.fullText), budget, strategy)

\* optimizeForChatGPT(entries, {maxTokens: budget}): the other options take
\* their defaults
optimizeForChatGPT(entries, budget) ==
  optimizedFrom(extractAndCleanContent(entries, TRUE, TRUE), budget,
                "semantic")

\* formatAsMarkdown of a result of strategy 'complete', lines 687-689
formatAsMarkdown(optimizedData) ==
  "# Daily Lifelog Summary\n\n" \o optimizedData.content

\* an entry whose markdown is the number 42
BadEntry ==
  [title |-> "Bad", markdown |-> "42", content |-> "", startTime |-> 1,
   markdownType |-> "number"]

\* what getLifelogsForDate gives for a date: a rejection, whose message
\* starts with 'Failed to fetch lifelogs: ', or a list of entries
Fetches ==
  {[rejected |-> "Failed to fetch lifelogs: Request failed",
    entries |-> <<>>],
   [rejected |-> "", entries |-> <<>>],
   [rejected |-> "", entries |-> <<EntryGym>>],
   [rejected |-> "", entries |-> <<EntryStandup, EntryGym>>],
   [rejected |-> "", entries |-> <<BadEntry>>]}

\* optimizeForChatGPT throws: lightSummarize calls replace on a markdown
\* that is no string (line 203)
optimizeThrows(entries) ==
  \E k \in 1..Len(entries) : "markdownType" \in DOMAIN entries[k]

\* lines 393-397
failureRecord(date, message) ==
  [date |-> date, success |-> "false", error |-> message]

\* lines 385-391
successRecord(date, count, optimizedData, format) ==
  [date |-> date,
   success |-> "true",
   count |-> count,
   tokenCount |-> IF "tokenCount" \in DOMAIN optimizedData
                  THEN optimizedData.tokenCount ELSE Undefined,
   output |-> IF format = "markdown" THEN formatAsMarkdown(optimizedData)
              ELSE optimizedData]

\* the body of the loop, lines 370-398: the records pushed for one date
recordsOf(date, fetched, format, budget) ==
  IF fetched.rejected # "" THEN <<failureRecord(date, fetched.rejected)>>
  ELSE IF Len(fetched.entries) = 0 THEN <<>>
  ELSE IF optimizeThrows(fetched.entries)
  THEN <<failureRecord(date, "processed.replace is not a function")>>
  ELSE <<successRecord(date, Len(fetched.entries),
                       optimizeForChatGPT(fetched.entries, budget), format)>>

\* lines 348-352
BatchUnauthorized ==
  /\ op = "batch-process"
  /\ pc = "start"
  /\ apiKey = Undefined
  /\ result' = [status |-> 401, body |-> [error |-> "API key required"]]
  /\ pc' = "done"
  /\ UNCHANGED <<inputs, batchState, previous, locals>>

\* line 366 and, if getDateRange throws, lines 407-410
BatchDatesOf(range) ==
  IF "thrown" \in DOMAIN range
  THEN /\ result' = [status |-> 500, body |-> [error |-> range.thrown]]
       /\ pc' = "done"
       /\ dates' = dates
  ELSE /\ dates' = range.returned
       /\ pc' = "loop"
       /\ result' = result

BatchDates ==
  /\ op = "batch-process"
  /\ pc = "start"
  /\ apiKey # Undefined
  /\ BatchDatesOf(getDateRange(hostZone, startDate, endDate))
  /\ UNCHANGED <<inputs, fetches, results, previous, locals>>

\* the turn of the loop has fetched entries and awaits optimizeForChatGPT
AwaitsOptimize(fetched) == fetched.rejected = "" /\ Len(fetched.entries) > 0

\* lines 369-372 and 392-398: getLifelogsForDate has settled for the next
\* date.  A rejection pushes its record and a date without entries pushes
\* nothing, and the loop goes on; for other dates optimizeForChatGPT is
\* called and awaited
BatchDate ==
  /\ pc = "loop"
  /\ Len(fetches) < Len(dates)
  /\ \E fetched \in Fetches :
       /\ fetches' = Append(fetches, fetched)
       /\ IF AwaitsOptimize(fetched)
          THEN results' = results /\ pc' = "optimizing"
          ELSE /\ results' = results
                              \o recordsOf(dates[Len(fetches) + 1], fetched,
                                           outputFormat, maxTokens)
               /\ pc' = pc
  /\ UNCHANGED <<inputs, dates, previous, locals, result>>

\* lines 373-398: optimizeForChatGPT has settled for the date; its record
\* is pushed
BatchRecord ==
  /\ op = "batch-process"
  /\ pc = "optimizing"
  /\ results' = results \o recordsOf(dates[Len(fetches)],
                                      fetches[Len(fetches)], outputFormat,
                                      maxTokens)
  /\ pc' = "loop"
  /\ UNCHANGED <<inputs, dates, fetches, previous, locals, result>>

\* lines 401-406
BatchRespond ==
  /\ pc = "loop"
  /\ Len(fetches) = Len(dates)
  /\ result' = [status |-> 200,
                body |-> [success |-> "true",
                          dateRange |-> [startDate |-> startDate,
                                         endDate |-> endDate],
                          processedDates |-> Len(results),
                          results |-> results]]
  /\ pc' = "done"
  /\ UNCHANGED <<inputs, batchState, previous, locals>>

\* chunks.map(chunk => chunk.content).join('\n\n') from the k-th chunk on
RECURSIVE joinContents(_, _)
joinContents(chunks, k) ==
  IF k > Len(chunks) THEN ""
  ELSE chunks[k].content
       \o (IF k < Len(chunks) THEN "\n\n" ELSE "")
       \o joinContents(chunks, k + 1)

\* lines 722-733
formatAsPlainText(optimizedData) ==
  IF optimizedData.strategy = "complete" THEN optimizedData.content
  ELSE joinContents(optimizedData.chunks, 1)

\* lines 110-117, for 'markdown' with a result of strategy 'complete'
formattedOutput(optimizedData, format) ==
  IF format = "markdown" THEN formatAsMarkdown(optimizedData)
  ELSE IF format = "json" THEN optimizedData
  ELSE formatAsPlainText(optimizedData)

\* the response written at lines 119-136; chunks is null exactly in a
\* result of strategy 'complete'
processResponse(entries, optimizedData, now) ==
  [status |-> 200,
   body |->
     [success |-> "true",
      date |-> startDate,
      timezone |-> "UTC",
      originalCount |-> Len(entries),
      processedCount |-> IF optimizedData.strategy = "complete" THEN 1
                         ELSE Len(optimizedData.chunks),
      tokenCount |-> IF "tokenCount" \in DOMAIN optimizedData
                     THEN optimizedData.tokenCount ELSE Undefined,
      output |-> formattedOutput(optimizedData, outputFormat),
      metadata |->
        [processingTime |-> now,
         settings |-> [maxTokens |-> maxTokens,
                       includeTimestamps |-> includeTimestamps,
                       includeSpeakers |-> includeSpeakers,
                       summarizeLevel |-> summarizeLevel,
                       outputFormat |-> outputFormat]]]]

\* the call of optimizeForChatGPT at lines 102-107: summarizeLevel is no
\* option that optimizeForChatGPT reads, chunkStrategy has its default
processOptimized(entries) ==
  optimizedFrom(extractAndCleanContent(entries, includeTimestamps,
                                       includeSpeakers),
                maxTokens, "semantic")

\* POST /api/process, lines 78-99: without key the request is refused,
\* with a key getLifelogsForDate is called and awaited
Process ==
  /\ op = "process"
  /\ pc = "start"
  /\ IF apiKey = Undefined
     THEN /\ result' = [status |-> 401,
                        body |-> [error |-> "API key required"]]
          /\ pc' = "done"
     ELSE /\ result' = result
          /\ pc' = "fetching"
  /\ UNCHANGED <<inputs, batchState, previous, locals>>

\* lines 99-107 and 137-140: getLifelogsForDate has settled; after a
\* rejection the handler answers 500, otherwise optimizeForChatGPT is
\* called and awaited
ProcessFetched ==
  /\ pc = "fetching"
  /\ \E fetched \in Fetches :
       /\ fetches' = <<fetched>>
       /\ IF fetched.rejected # ""
          THEN /\ result' = [status |-> 500,
                             body |-> [error |-> fetched.rejected]]
               /\ pc' = "done"
          ELSE /\ result' = result
               /\ pc' = "optimizing"
  /\ UNCHANGED <<inputs, dates, results, previous, locals>>

\* lines 102-140: optimizeForChatGPT has settled; the response is written
\* with the reading of the clock at that time
ProcessRespond ==
  /\ pc = "optimizing"
  /\ op = "process"
  /\ \E now \in Instants :
       result' =
         IF optimizeThrows(fetches[1].entries)
         THEN [status |-> 500,
               body |-> [error |-> "processed.replace is not a function"]]
         ELSE processResponse(fetches[1].entries,
                              processOptimized(fetches[1].entries), now)
  /\ pc' = "done"
  /\ UNCHANGED <<inputs, batchState, previous, locals>>

\* a direct call of one summarizer tier on a text
summarizerOutput(name, content, speakers) ==
  IF name = "aggressiveSummarize" THEN aggressiveSummarize(content, speakers)
  ELSE IF name = "moderateSummarize" THEN moderateSummarize(content, speakers)
  ELSE lightSummarize(content, speakers)

CallSummarizer ==
  /\ op \in Summarizers
  /\ pc = "start"
  /\ result' = [returned |->
                  summarizerOutput(op, text.value, JsBool(includeSpeakers))]
  /\ pc' = "done"
  /\ UNCHANGED <<inputs, batchState, previous, locals>>

\* a direct call of extractTopicsFromText on a text
CallExtractTopics ==
  /\ op = "extractTopicsFromText"
  /\ pc = "start"
  /\ result' = [returned |-> extractTopicsFromText(text.value)]
  /\ pc' = "done"
  /\ UNCHANGED <<inputs, batchState, previous, locals>>

Next ==
  \/ CallGetDateRange
  \/ BatchUnauthorized
  \/ BatchDates
  \/ BatchDate
  \/ BatchRecord
  \/ BatchRespond
  \/ Process
  \/ ProcessFetched
  \/ ProcessRespond
  \/ CallSummarizer
  \/ CallExtractTopics
  \/ CallCountTokens
  \/ ExtractContent
  \/ ReturnComplete
  \/ CallChunking
  \/ ResumeChunking
  \/ ReturnChunked
  \/ GroupAlone
  \/ GroupEntries
  \/ EnterHigh
  \/ HighItem
  \/ EnterMedium
  \/ MediumItem
  \/ EnterLow
  \/ LowItem
  \/ ReturnConsolidated

Spec == Init /\ [][Next]_vars

(***************************************************************************)
(* A sequence of calls on one instance                                     *)
(***************************************************************************)

Exports == {"optimizeForChatGPT", "createConsolidatedExport"}

\* the function that is called and the arguments it is called with
Arguments ==
  [op |-> op, lifelogs |-> lifelogs, maxTokens |-> maxTokens,
   includeTimestamps |-> includeTimestamps,
   includeSpeakers |-> includeSpeakers, chunkStrategy |-> chunkStrategy,
   summarizeLevel |-> summarizeLevel, text |-> text]

\* an export call with the default options
ExportCall(export, entries, budget) ==
  [op |-> export, lifelogs |-> entries, maxTokens |-> budget,
   includeTimestamps |-> TRUE, includeSpeakers |-> TRUE,
   chunkStrategy |-> "semantic", summarizeLevel |-> "low", text |-> NoText]

\* the calls of the two exports: a list with a high and a medium entry
\* under a budget that leaves entries out and chunks and under one that
\* does not, and a list of low entries with a special token
ExportCalls ==
  {ExportCall(export, <<EntryStandup, EntryGym>>, budget) :
     export \in Exports, budget \in {21, 400}}
  \cup {ExportCall(export, <<EntryLunch, EntryNotes>>, 21) :
          export \in Exports}

\* calls of other methods of the instance
OtherCalls ==
  {[op |-> "groupByTopicsAndImportance", lifelogs |-> entries,
    maxTokens |-> 120000, includeTimestamps |-> TRUE,
    includeSpeakers |-> TRUE, chunkStrategy |-> "semantic",
    summarizeLevel |-> "low", text |-> NoText] :
     entries \in {<<EntryStandup, EntryGym>>}}
  \cup {[op |-> "countTokens", lifelogs |-> <<>>, maxTokens |-> 8000,
          includeTimestamps |-> TRUE, includeSpeakers |-> TRUE,
          chunkStrategy |-> "semantic", summarizeLevel |-> "low",
          text |-> JsString("Hello world")]}

Calls == ExportCalls \cup OtherCalls

\* what the caller remembers of an earlier call: its arguments, what it
\* returned, and whether a different call has been made since
Remembered(call, returned) ==
  [call |-> call, returned |-> returned, between |-> FALSE]

\* the caller makes a call that differs from the remembered one
Since(remembered, call) ==
  IF remembered # NoResult /\ remembered.call # call
  THEN [remembered EXCEPT !.between = TRUE]
  ELSE remembered

\* A call has returned and the caller makes the next call on the same
\* instance, any call in any order.  The caller may remember what the
\* export that has returned gave.  The locals of the calls that have
\* returned are left as they are; the next call declares its own.
NextCall ==
  /\ pc = "done"
  /\ \E call \in Calls, remember \in BOOLEAN :
       /\ op' = call.op
       /\ lifelogs' = call.lifelogs
       /\ maxTokens' = call.maxTokens
       /\ includeTimestamps' = call.includeTimestamps
       /\ includeSpeakers' = call.includeSpeakers
       /\ chunkStrategy' = call.chunkStrategy
       /\ summarizeLevel' = call.summarizeLevel
       /\ text' = call.text
       /\ previous' = Since(IF remember /\ op \in Exports
                            THEN Remembered(Arguments, result)
                            ELSE previous, call)
  /\ result' = NoResult
  /\ pc' = "start"
  /\ UNCHANGED <<startDate, endDate, hostZone, apiKey, outputFormat,
                 batchState, locals>>

\* the first call on the instance
InitCalls == Init /\ Arguments \in Calls

NextCalls ==
  \/ NextCall
  \/ CallCountTokens
  \/ ExtractContent
  \/ ReturnComplete
  \/ CallChunking
  \/ ResumeChunking
  \/ ReturnChunked
  \/ GroupAlone
  \/ GroupEntries
  \/ EnterHigh
  \/ HighItem
  \/ EnterMedium
  \/ MediumItem
  \/ EnterLow
  \/ LowItem
  \/ ReturnConsolidated

SpecCalls == InitCalls /\ [][NextCalls]_vars

(***************************************************************************)
(* Properties                                                              *)
(***************************************************************************)

OptimizeDone == op = "optimizeForChatGPT" /\ pc = "done"
ExportDone == op = "createConsolidatedExport" /\ pc = "done"
Chunked == OptimizeDone /\ result.strategy # "complete"

\* C1: if countTokens(fullText) <= maxTokens the result is 'complete' with
\* chunks null and tokenCount = countTokens(fullText); a chunking routine
\* is invoked if and only if countTokens(fullText) > maxTokens.
C1_CompleteIffFits ==
  OptimizeDone =>
    LET tokens == countTokens(cleanedContent.fullText)
    IN  /\ tokens <= maxTokens =>
             /\ result.strategy = "complete"
             /\ result.chunks = Null
             /\ result.tokenCount = tokens
        /\ (calls # {}) <=> (tokens > maxTokens)

\* a text of more than one token that fits its budget was returned whole
C1_Witness ==
  /\ OptimizeDone
  /\ result.strategy = "complete"
  /\ result.tokenCount > 1
  /\ result.tokenCount # Len(result.content)

\* C2: every chunk of fixedChunking and semanticChunking has a tokenCount
\* of at most floor(0.9 * maxTokens).
C2_ChunksTokenBounded ==
  Chunked =>
    \A i \in 1..Len(result.chunks) :
      result.chunks[i].tokenCount <= chunkSizeOf(maxTokens)

RECURSIVE TokenSum(_, _)
TokenSum(chunks, k) ==
  IF k = 0 THEN 0 ELSE TokenSum(chunks, k - 1) + chunks[k].tokenCount

\* C3: in a chunked result the tokenCount of the chunks sum up to
\* optimizedTokens.
C3_SumIsOptimizedTokens ==
  Chunked =>
    TokenSum(result.chunks, Len(result.chunks)) = result.optimizedTokens

\* a semantic result with whole-section chunks and sub-chunks
C3_Witness ==
  /\ Chunked
  /\ \E i, j \in 1..Len(result.chunks) :
       /\ result.chunks[i].type = "semantic"
       /\ result.chunks[j].type = "semantic-split"
       /\ result.chunks[i].tokenCount > 0
       /\ result.chunks[j].tokenCount > 0

\* the characters lo..hi of s without white space, by halves
RECURSIVE Squash(_, _, _)
Squash(s, lo, hi) ==
  IF lo > hi THEN ""
  ELSE IF lo = hi THEN (IF IsSpace(Ch(s, lo)) THEN "" ELSE Ch(s, lo))
  ELSE LET mid == (lo + hi) \div 2
       IN  Squash(s, lo, mid) \o Squash(s, mid + 1, hi)

\* C4: the chunk at position i has index i - 1, and the chunks follow the
\* source order: each chunk is the text of a stretch of fullText (up to
\* the white space between its pieces) and the stretch of a chunk ends
\* before the stretch of the next chunk starts.
C4_IndexAndSourceOrder ==
  Chunked =>
    LET chunks == result.chunks
        fullText == cleanedContent.fullText
    IN  /\ \A i \in 1..Len(chunks) : chunks[i].index = i - 1
        /\ \A i \in 1..Len(chunks) :
             /\ 1 <= chunks[i].from
             /\ chunks[i].to <= Len(fullText)
             /\ Squash(chunks[i].content, 1, Len(chunks[i].content))
                  = Squash(fullText, chunks[i].from, chunks[i].to)
        /\ \A i \in 1..(Len(chunks) - 1) : chunks[i].to < chunks[i + 1].from

\* a flushed section chunk, then sub-chunks, then a section chunk
C4_Witness ==
  /\ Chunked
  /\ \E i \in 1..(Len(result.chunks) - 3) :
       /\ result.chunks[i].type = "semantic"
       /\ result.chunks[i + 1].type = "semantic-split"
       /\ result.chunks[i + 2].type = "semantic-split"
       /\ result.chunks[Len(result.chunks)].type = "semantic"

\* C5: the content returned by createConsolidatedExport has at most
\* maxTokens tokens.
C5_ContentWithinBudget ==
  ExportDone => countTokens(result.content) <= maxTokens

\* C6: the running total respects the cumulative ceilings: at most 85% of
\* maxTokens in and after the high loop, 95% in and after the medium loop,
\* 98% in and after the low loop, and the returned tokenCount is at most
\* 98% of maxTokens.
C6_Ceilings ==
  op = "createConsolidatedExport" =>
    /\ pc = "high" => 100 * totalTokens <= 85 * maxTokens
    /\ pc = "medium" /\ idx = 0 => 100 * totalTokens <= 85 * maxTokens
    /\ pc = "medium" => 100 * totalTokens <= 95 * maxTokens
    /\ pc = "low" /\ idx = 0 => 100 * totalTokens <= 95 * maxTokens
    /\ pc \in {"low", "footer", "done"} =>
         100 * totalTokens <= 98 * maxTokens
    /\ pc = "done" => 100 * result.tokenCount <= 98 * maxTokens

\* an item was appended in two bands and the total is above the ceiling of
\* the first of them
C6_Witness ==
  /\ ExportDone
  /\ \/ /\ included.high # {} /\ included.medium # {}
        /\ 100 * totalTokens > 85 * maxTokens
     \/ /\ included.medium # {} /\ included.low # {}
        /\ 100 * totalTokens > 95 * maxTokens

\* the fields of the entry that an enriched entry came from
Original(e) == Lifelog(e.title, e.markdown, e.startTime)

Occurrences(seq, e) == Cardinality({i \in 1..Len(seq) : seq[i] = e})

OriginalsOf(band) == [i \in 1..Len(band) |-> Original(band[i])]

HasGroups == op = "groupByTopicsAndImportance" /\ pc = "done"

\* the band that the rule of the claim gives to an entry of the given word
\* count and lower-cased text
BandByRule(wordCount, lowered) ==
  IF wordCount > 50 \/ \E k \in highImportanceKeywords : includes(lowered, k)
  THEN "high"
  ELSE IF wordCount > 20
          \/ \E k \in mediumImportanceKeywords : includes(lowered, k)
  THEN "medium"
  ELSE "low"

BandsOf(grouped) ==
  [high |-> grouped.highPriority, medium |-> grouped.mediumPriority,
   low |-> grouped.lowPriority]

\* C7: every entry is in exactly one band, high if its word count is above
\* 50 or its lower-cased text has a high-importance keyword, otherwise
\* medium if its word count is above 20 or it has a medium-importance
\* keyword, otherwise low; entries of 10, 30 and 60 words are in low,
\* medium and high.
C7_Bands ==
  HasGroups =>
    LET bands == BandsOf(groupedContent)
        all == OriginalsOf(bands.high) \o OriginalsOf(bands.medium)
               \o OriginalsOf(bands.low)
    IN  /\ \A e \in GrouperEntries :
             Occurrences(all, e) = Occurrences(lifelogs, e)
        /\ \A b \in {"high", "medium", "low"} :
             \A i \in 1..Len(bands[b]) :
               LET e == bands[b][i]
               IN  /\ e.priority = b
                   /\ b = BandByRule(
                            e.wordCount,
                            toLowerCase(extractTextContent(Original(e))))
        /\ \A i \in 1..Len(bands.low) :
             Original(bands.low[i]) \notin {EntryWords30, EntryWords60}
        /\ \A i \in 1..Len(bands.medium) :
             Original(bands.medium[i]) \notin {EntryWords10, EntryWords60}
        /\ \A i \in 1..Len(bands.high) :
             Original(bands.high[i]) \notin {EntryWords10, EntryWords30}

\* an entry with a high and a medium keyword is in the high band, next to
\* an entry that is high by its 51 words alone
C7_Witness ==
  /\ HasGroups
  /\ Len(groupedContent.highPriority) = 2
  /\ \E i, j \in 1..2 :
       /\ Original(groupedContent.highPriority[i]) = EntryStandup
       /\ Original(groupedContent.highPriority[j]) = EntryWords51

TokensDone == op = "countTokens" /\ pc = "done"

\* C11: countTokens returns a natural number, which is 0 if and only if
\* the argument is the empty string or no string; it is positive for every
\* other string, whether encode throws or not.
C11_ZeroIffEmptyOrNoString ==
  TokensDone =>
    /\ "returned" \in DOMAIN result
    /\ result.returned \in Nat
    /\ (result.returned = 0) <=> (text.type # "string" \/ text.value = "")

\* a truthy argument that is no string was counted
C11_Witness ==
  /\ TokensDone
  /\ text.type = "object"
  /\ text.value # "null"
  /\ result.returned = 0

\* C12: countTokens returns (it does not throw); when encode throws the
\* value is ceil(length / 4), and among the texts on which encode throws a
\* text that is not longer has a value that is not greater.
C12_FallbackMonotonic ==
  TokensDone /\ text.type = "string" /\ EncodeThrows(text.value) =>
    /\ "returned" \in DOMAIN result
    /\ 4 * (result.returned - 1) < Len(text.value)
    /\ Len(text.value) <= 4 * result.returned
    /\ \A t \in TokenTexts :
         EncodeThrows(t) /\ Len(t) <= Len(text.value) =>
           countTokensOf(JsString(t)) <= result.returned

\* encode threw on a text whose length is no multiple of 4
C12_Witness ==
  /\ TokensDone
  /\ text.type = "string"
  /\ EncodeThrows(text.value)
  /\ Len(text.value) % 4 # 0
  /\ result.returned > 1

\* C13: every result of optimizeForChatGPT has a compressionRatio, which
\* is (originalTokens - optimizedTokens) / originalTokens, and is 0 when the
\* token total was not reduced, the result of a content that fits included.
C13_CompressionRatio ==
  OptimizeDone =>
    /\ "compressionRatio" \in DOMAIN result
    /\ result.compressionRatio.num
         = result.originalTokens - result.optimizedTokens
    /\ result.compressionRatio.den = result.originalTokens
    /\ result.optimizedTokens >= result.originalTokens =>
         result.compressionRatio.num = 0

\* the text of the entries from the k-th on when the body of each entry is
\* reduced by the tier of the given level with the given speaker setting
RECURSIVE BodiesReducedBy(_, _, _, _)
BodiesReducedBy(entries, k, level, speakers) ==
  IF k > Len(entries) THEN ""
  ELSE extractEntryText([entries[k] EXCEPT !.markdown = ""],
                        includeTimestamps, includeSpeakers)
       \o (IF entries[k].markdown # ""
            THEN processContentBySummarizeLevel(entries[k].markdown, level,
                                                speakers) \o "\n\n"
            ELSE "")
       \o BodiesReducedBy(entries, k + 1, level, speakers)

Extracted == op = "optimizeForChatGPT" /\ pc # "start"

\* C14: optimizeForChatGPT honours summarizeLevel: the body of each entry is
\* reduced with the Light tier for "low", the Moderate tier for "medium" and
\* the Aggressive tier for "high" (whatever the speaker setting the tier is
\* run with).
C14_TierOfSummarizeLevel ==
  Extracted =>
    \E speakers \in {"true", "false", Undefined} :
      cleanedContent.fullText =
        trim(BodiesReducedBy(lifelogs, 1, summarizeLevel, speakers))

\* C15: with includeSpeakers = true the fullText keeps every "[speaker]: "
\* prefix of the bodies, with includeSpeakers = false it removes them.
C15_SpeakersKeptWhenIncluded ==
  Extracted =>
    cleanedContent.fullText =
      trim(BodiesReducedBy(lifelogs, 1, "low", JsBool(includeSpeakers)))

SummarizerDone == op \in Summarizers /\ pc = "done"

\* the text that a tier leaves is no longer than the text that the tier
\* before it leaves
CompressesMore(name, returned, content, speakers) ==
  IF name = "aggressiveSummarize"
  THEN Len(returned) <= Len(moderateSummarize(content, speakers))
  ELSE IF name = "moderateSummarize"
  THEN Len(returned) <= Len(lightSummarize(content, speakers))
  ELSE Len(returned) <= Len(content)

\* C18: for every text x and either value of includeSpeakers,
\* length(aggressiveSummarize(x)) <= length(moderateSummarize(x))
\* <= length(lightSummarize(x)) <= length(x).
C18_TiersCompressInOrder ==
  SummarizerDone =>
    CompressesMore(op, result.returned, text.value, JsBool(includeSpeakers))

\* s from the line that starts at i on, every line of 1 to n - 1 characters
\* emptied and every other line unchanged
RECURSIVE LinesUnderEmptied(_, _, _)
LinesUnderEmptied(s, i, n) ==
  IF i > Len(s) THEN ""
  ELSE (IF LineEnd(s, i) - i \in 1..(n - 1) THEN ""
        ELSE SubSeq(s, i, LineEnd(s, i) - 1))
       \o (IF LineEnd(s, i) > Len(s) THEN ""
            ELSE "\n" \o LinesUnderEmptied(s, LineEnd(s, i) + 1, n))

\* the text before lightSummarize removes the short lines
BeforeShortLines(content, speakers) ==
  IF Truthy(speakers) THEN collapseBlankLines(content, 1)
  ELSE stripSpeakers(collapseBlankLines(content, 1), 1)

\* C20: lightSummarize deletes a line if and only if its length is under 15
\* characters: lines of 1 to 14 characters are emptied, lines of 15 or
\* more characters are kept unchanged.
C20_LinesUnder15Deleted ==
  op = "lightSummarize" /\ pc = "done" =>
    result.returned =
      trim(LinesUnderEmptied(
             BeforeShortLines(text.value, JsBool(includeSpeakers)), 1, 15))

Measure(x, trimmed) == IF trimmed THEN Len(trim(x)) ELSE Len(x)

RECURSIVE InsertByMeasure(_, _, _)
InsertByMeasure(sorted, x, trimmed) ==
  IF sorted = <<>> THEN <<x>>
  ELSE IF Measure(Head(sorted), trimmed) >= Measure(x, trimmed)
  THEN <<Head(sorted)>> \o InsertByMeasure(Tail(sorted), x, trimmed)
  ELSE <<x>> \o sorted

\* the sentences by descending length
RECURSIVE LongestFirst(_, _, _)
LongestFirst(sentences, k, trimmed) ==
  IF k = 0 THEN <<>>
  ELSE InsertByMeasure(LongestFirst(sentences, k - 1, trimmed), sentences[k],
                       trimmed)

\* the candidates: the sentences of the Light output longer than 20
Candidates(light, trimmed) ==
  SelectSeq(splitOnEndsFrom(light, 1), LAMBDA x : Measure(x, trimmed) > 20)

\* the candidates with an important keyword or longer than 50
Retained(candidates, trimmed) ==
  SelectSeq(candidates,
            LAMBDA x : hasKeyword(x, importantKeywords)
                       \/ Measure(x, trimmed) > 50)

SafeguardFires(candidates, retained) ==
  10 * Len(retained) < 3 * Len(candidates)

\* the sentences of the Moderate output by the rule of the claim
ModerateSentences(candidates, retained, trimmed) ==
  IF SafeguardFires(candidates, retained)
  THEN SubSeq(LongestFirst(candidates, Len(candidates), trimmed), 1,
              CeilDiv(7 * Len(candidates), 10))
  ELSE retained

ModerateOfCandidates(candidates, trimmed) ==
  join(ModerateSentences(candidates, Retained(candidates, trimmed), trimmed),
       ". ") \o "."

ModerateByRule(light, trimmed) ==
  ModerateOfCandidates(Candidates(light, trimmed), trimmed)

ModerateDone == op = "moderateSummarize" /\ pc = "done"

\* C21: moderateSummarize takes as candidates the sentences of the Light
\* output whose length exceeds 20 and retains a candidate iff it has an
\* important keyword or its length exceeds 50; if the retained are fewer
\* than 30% of the candidates it outputs the longest 70% (rounded up) of the
\* candidates.  The length of a sentence is read either with or without
\* the blanks around it, the same way in both tests.
C21_ModerateRule ==
  ModerateDone =>
    \E trimmed \in BOOLEAN :
      result.returned =
        ModerateByRule(lightSummarize(text.value, JsBool(includeSpeakers)),
                       trimmed)

\* the sentences of the Moderate output longer than 30
LongSentences(moderate, trimmed) ==
  SelectSeq(splitOnEndsFrom(moderate, 1), LAMBDA x : Measure(x, trimmed) > 30)

HighPriority(sentences) ==
  SelectSeq(sentences, LAMBDA x : hasKeyword(x, highPriorityKeywords))

\* the sentences of the Aggressive output by the rule of the claim
AggressiveSentences(sentences, critical, trimmed) ==
  IF critical # <<>> THEN critical
  ELSE SubSeq(LongestFirst(sentences, Len(sentences), trimmed), 1,
              IF Len(sentences) < 3 THEN Len(sentences) ELSE 3)

AggressiveOfSentences(sentences, trimmed) ==
  AggressiveSentences(sentences, HighPriority(sentences), trimmed)

Range(f) == {f[i] : i \in DOMAIN f}

\* the output is the sentences joined, each a sentence of the Moderate output
AggressiveAsRuled(returned, moderate, sentences) ==
  /\ returned = join(sentences, ". ") \o "."
  /\ Range(sentences) \subseteq Range(splitOnEndsFrom(moderate, 1))

AggressiveDone == op = "aggressiveSummarize" /\ pc = "done"

\* C22: aggressiveSummarize outputs only the sentences with a high-priority
\* keyword whenever a sentence of the Moderate output of length over 30
\* has one; when none has, it outputs the 3 longest of those sentences (all
\* of them if they are fewer).  Every sentence of its output is a sentence
\* of the Moderate output.  The length of a sentence is read either with
\* or without the blanks around it, the same way in the test against 30
\* and in the ranking.
C22_AggressiveRule ==
  AggressiveDone =>
    \E trimmed \in BOOLEAN :
      AggressiveAsRuled(
        result.returned,
        moderateSummarize(text.value, JsBool(includeSpeakers)),
        AggressiveOfSentences(
          LongSentences(moderateSummarize(text.value,
                                          JsBool(includeSpeakers)), trimmed),
          trimmed))

SemanticResult ==
  Chunked /\ chunkStrategy \in {"semantic", "temporal"}

\* the section alone exceeds the chunk size
Oversized(section) == countTokens(section.text) > chunkSizeOf(maxTokens)

\* the chunk was built from characters of the section only
Within(chunk, section) ==
  section.at <= chunk.from /\ chunk.to <= PieceLast(section)

\* the chunk was built from whole sections, none of them oversized
WholeSections(chunk, sections) ==
  /\ \E k \in 1..Len(sections) : chunk.from = sections[k].at
  /\ \E k \in 1..Len(sections) : chunk.to = PieceLast(sections[k])
  /\ \A k \in 1..Len(sections) :
       chunk.from <= sections[k].at /\ sections[k].at <= chunk.to =>
         ~Oversized(sections[k])

SplitAsRuled(chunks, sections) ==
  /\ \A k \in 1..Len(sections) :
       Oversized(sections[k]) <=>
         \E i \in 1..Len(chunks) :
           chunks[i].type = "semantic-split" /\ Within(chunks[i], sections[k])
  /\ \A i \in 1..Len(chunks) :
       IF \E k \in 1..Len(sections) :
            Oversized(sections[k]) /\ Within(chunks[i], sections[k])
       THEN chunks[i].type = "semantic-split"
       ELSE chunks[i].type = "semantic" /\ WholeSections(chunks[i], sections)
  /\ \A i \in 1..(Len(chunks) - 1) :
       chunks[i].index < chunks[i + 1].index
       /\ chunks[i].to < chunks[i + 1].from

\* C23: in semanticChunking a section is split by fixed chunking iff the
\* section alone exceeds floor(0.9 * maxTokens) tokens; its sub-chunks are
\* tagged 'semantic-split', every other chunk is tagged 'semantic' and
\* consists of whole sections only, and the chunk accumulated before the
\* oversized section comes before its sub-chunks.
C23_SplitIffOversized ==
  SemanticResult =>
    SplitAsRuled(result.chunks, splitSections(cleanedContent.fullText))

\* the strategy a chunk type names: 'semantic-split' is the sub-chunk tag
\* of the semantic strategy
StrategyOfTag(type) == IF type = "semantic-split" THEN "semantic" ELSE type

\* C24: in a chunked result whose strategy is fixed, semantic or temporal
\* every chunk's type names that strategy (for semantic also the sub-chunk
\* tag) and never another one, so the chunks of a 'temporal' result differ
\* in their tag from those of a 'semantic' result.
C24_TagNamesStrategy ==
  (Chunked /\ result.strategy \in {"fixed", "semantic", "temporal"}) =>
    \A i \in 1..Len(result.chunks) :
      StrategyOfTag(result.chunks[i].type) = result.strategy

\* the heading texts of the lines of s that start with "## ", from the line
\* that starts at i on: what follows "## " on the line, trimmed
RECURSIVE HeadingTextsFrom(_, _)
HeadingTextsFrom(s, i) ==
  IF i > Len(s) THEN <<>>
  ELSE (IF StartsWithAt(s, i, "## ")
        THEN <<trim(SubSeq(s, i + 3, LineEnd(s, i) - 1))>> ELSE <<>>)
       \o HeadingTextsFrom(s, LineEnd(s, i) + 1)

HeadingTexts(s) == HeadingTextsFrom(s, 1)

TopicsDone == op = "extractTopicsFromText" /\ pc = "done"

\* every chunk tagged 'semantic' has as topics the headings of its content
ChunkTopicsAreHeadings ==
  SemanticResult =>
    \A i \in 1..Len(result.chunks) :
      result.chunks[i].type = "semantic" =>
        result.chunks[i].topics = HeadingTexts(result.chunks[i].content)

\* C25: extractTopicsFromText returns exactly the heading texts of the
\* lines that start with "## ", trimmed, in document order and with
\* repeats kept; every chunk tagged 'semantic' carries as topics the
\* headings found in the chunk's own text.
C25_TopicsAreHeadings ==
  /\ TopicsDone => result.returned = HeadingTexts(text.value)
  /\ ChunkTopicsAreHeadings

\* the texts of the pieces without the white space around them, empty
\* pieces left out
TextsOf(pieces) ==
  SelectSeq([k \in 1..Len(pieces) |-> trim(pieces[k].text)],
            LAMBDA t : t # "")

SentenceTexts(s) == TextsOf(splitSentences(s))

SectionTexts(s) == TextsOf(splitSections(s))

\* the section was handed to fixedChunking: it has sub-chunks
WasSplit(section, chunks) ==
  \E i \in 1..Len(chunks) :
    chunks[i].type = "semantic-split" /\ Within(chunks[i], section)

\* the units semanticChunking distributes: the sentences of a section that
\* was handed to fixedChunking, every other section whole
RECURSIVE UnitsOfSections(_, _, _)
UnitsOfSections(sections, k, chunks) ==
  IF k > Len(sections) THEN <<>>
  ELSE (IF WasSplit(sections[k], chunks)
        THEN SentenceTexts(sections[k].text)
        ELSE TextsOf(<<sections[k]>>))
       \o UnitsOfSections(sections, k + 1, chunks)

\* the units found in the chunks, in index order: the sentences of a
\* 'fixed' or 'semantic-split' chunk, the sections of a 'semantic' chunk
RECURSIVE UnitsOfChunks(_, _)
UnitsOfChunks(chunks, k) ==
  IF k > Len(chunks) THEN <<>>
  ELSE (IF chunks[k].type = "semantic" THEN SectionTexts(chunks[k].content)
        ELSE SentenceTexts(chunks[k].content))
       \o UnitsOfChunks(chunks, k + 1)

\* the chunks are in index order
InIndexOrder(chunks) == \A k \in 1..Len(chunks) : chunks[k].index = k - 1

\* C26: chunking loses and duplicates nothing.  The sentences of the
\* chunks of fixedChunking, taken in index order, are the sentences of
\* fullText in their order; the chunks of semanticChunking give back the
\* sections of fullText, and the sentences of every section that was split,
\* in their order.
C26_NothingLostOrDuplicated ==
  Chunked =>
    /\ InIndexOrder(result.chunks)
    /\ UnitsOfChunks(result.chunks, 1)
         = IF chunkStrategy = "fixed"
           THEN SentenceTexts(cleanedContent.fullText)
           ELSE UnitsOfSections(splitSections(cleanedContent.fullText), 1,
                                result.chunks)

\* a text of at least three sentences was distributed over several
\* 'fixed' chunks, one of which holds more than one sentence
C26_Witness ==
  /\ Chunked
  /\ chunkStrategy = "fixed"
  /\ Len(SentenceTexts(cleanedContent.fullText)) >= 3
  /\ Len(result.chunks) >= 2
  /\ \E k \in 1..Len(result.chunks) :
       Len(SentenceTexts(result.chunks[k].content)) >= 2

\* C29: chunking never increases the token total: in every chunked result
\* optimizedTokens <= originalTokens and so compressionRatio >= 0, with
\* the estimate ceil(length / 4) as well as with the tokenizer.
C29_ChunkingAddsNoTokens ==
  Chunked =>
    /\ result.optimizedTokens <= result.originalTokens
    /\ result.compressionRatio.num >= 0

\* the number of dates whose turn of the loop has ended: the last date
\* fetched is not among them while its optimization is awaited
Settled == IF pc = "optimizing" THEN Len(fetches) - 1 ELSE Len(fetches)

\* a value that is a number and not undefined; ToString keeps the test
\* within strings
IsNumber(v) == ToString(v) # ToString(Undefined)

\* the token total of a result of optimizeForChatGPT
TokenTotal(optimizedData) ==
  IF optimizedData.strategy = "complete" THEN optimizedData.tokenCount
  ELSE optimizedData.optimizedTokens

\* the entries of the dates that were fetched and optimized
Optimized(fetched) ==
  SelectSeq(fetched, LAMBDA f : f.rejected = "" /\ Len(f.entries) > 0
                                /\ ~optimizeThrows(f.entries))

Successes(records) == SelectSeq(records, LAMBDA r : r.success = "true")

ProcessAnswered == op = "process" /\ pc = "done" /\ result.status = 200

\* C30: every successful record of batch-process, and the response of
\* /api/process, has a tokenCount that is a number and is the token total
\* of the result for its date, for a result of strategy 'complete' as for
\* a chunked one.
C30_TokenCountDefined ==
  /\ op = "batch-process" =>
       /\ Len(Successes(results))
            = Len(Optimized(SubSeq(fetches, 1, Settled)))
       /\ \A k \in 1..Len(Successes(results)) :
            /\ IsNumber(Successes(results)[k].tokenCount)
            /\ Successes(results)[k].tokenCount
                 = TokenTotal(optimizeForChatGPT(Optimized(fetches)[k].entries,
                                                 maxTokens))
  /\ ProcessAnswered =>
       /\ IsNumber(result.body.tokenCount)
       /\ result.body.tokenCount
            = TokenTotal(processOptimized(fetches[1].entries))

\* fetching or optimizing the date failed
Failed(fetched) == fetched.rejected # "" \/ optimizeThrows(fetched.entries)

\* the day of the calendar that a date string names
DayOf(dateString) ==
  CHOOSE day \in 1..CalendarDays : DateString(day) = dateString

\* the calendar dates from the first day to the last, in ascending order
ConsecutiveDates(first, last) ==
  [k \in 1..(last - first + 1) |-> DateString(first + k - 1)]

\* the dates of the range of the request
RangeDates == ConsecutiveDates(DayOf(startDate), DayOf(endDate))

\* the records account for the dates of the range from the k-th on, in
\* ascending order: one failure record for a date that failed, no record
\* for a date without entries, one success record for the others
RECURSIVE Accounted(_, _)
Accounted(records, k) ==
  IF k > Settled THEN records = <<>>
  ELSE IF Failed(fetches[k])
  THEN /\ records # <<>>
       /\ DOMAIN Head(records) = {"date", "success", "error"}
       /\ Head(records).date = RangeDates[k]
       /\ Head(records).success = "false"
       /\ Accounted(Tail(records), k + 1)
  ELSE IF fetches[k].entries = <<>> THEN Accounted(records, k + 1)
  ELSE /\ records # <<>>
       /\ Head(records).date = RangeDates[k]
       /\ Head(records).success = "true"
       /\ Accounted(Tail(records), k + 1)

\* a step of the loop handles the next date or ends its turn, and at most
\* appends a record
OneDateAtATime ==
  pc \in {"loop", "optimizing"}
  /\ op = "batch-process"
  /\ (fetches' # fetches \/ results' # results) =>
    /\ \/ Len(fetches') = Len(fetches) + 1 /\ pc = "loop"
       \/ fetches' = fetches /\ pc = "optimizing"
    /\ dates' = dates
    /\ Len(results') <= Len(results) + 1
    /\ SubSeq(results', 1, Len(results)) = results

\* the batch is in its loop or has answered a request for a range
InBatch ==
  /\ op = "batch-process"
  /\ apiKey # Undefined
  /\ DayOf(startDate) <= DayOf(endDate)
  /\ pc # "start"

\* C16: batch processing handles the dates of the range one after another
\* in ascending order and isolates failures per date: a date whose fetch
\* or optimization fails adds exactly one record {date, success: false,
\* error}, every later date of the range is still processed, and the
\* records of earlier dates are unchanged.
C16_FailuresIsolatedPerDate ==
  /\ [](InBatch =>
          /\ Len(fetches) <= Len(RangeDates)
          /\ Accounted(results, 1)
          /\ (pc = "done" =>
                /\ result.status = 200
                /\ Len(fetches) = Len(RangeDates)
                /\ result.body.results = results
                /\ result.body.processedDates = Len(results)))
  /\ [][OneDateAtATime]_vars

StartAfterEnd == "Start date cannot be after end date"

\* C17: getDateRange(start, end) with start <= end returns the consecutive
\* calendar dates from start to end inclusive in ascending order; with
\* start > end it returns no list and reports 'Start date cannot be after
\* end date', which batch-process turns into an error response.
C17_ConsecutiveDatesOrError ==
  /\ op = "getDateRange" /\ pc = "done" =>
       IF DayOf(startDate) <= DayOf(endDate)
       THEN /\ "returned" \in DOMAIN result
            /\ result.returned =
                 ConsecutiveDates(DayOf(startDate), DayOf(endDate))
       ELSE /\ "thrown" \in DOMAIN result
            /\ result.thrown = StartAfterEnd
  /\ op = "batch-process" /\ pc = "done" /\ apiKey # Undefined
       /\ DayOf(startDate) > DayOf(endDate) =>
       /\ result.status = 500
       /\ result.body = [error |-> StartAfterEnd]

\* C8: within each band the entries that have a startTime are in ascending
\* order of startTime.
C8_BandsSortedByStartTime ==
  HasGroups =>
    \A b \in {"high", "medium", "low"} :
      LET band == BandsOf(groupedContent)[b]
      IN  \A i, j \in 1..Len(band) :
            i < j /\ band[i].startTime # 0 /\ band[j].startTime # 0 =>
              band[i].startTime <= band[j].startTime

EndsWith(s, k) ==
  Len(k) <= Len(s) /\ SubSeq(s, Len(s) - Len(k) + 1, Len(s)) = k

\* the number of entries of a band that were not appended
Unprocessed(b) == Len(BandsOf(groupedContent)[b]) - Cardinality(included[b])

\* C9: whenever an entry was left out, the footer is appended and its
\* count is floor(unprocessed_high) + floor(0.8 * unprocessed_medium)
\* + floor(0.3 * unprocessed_low).
C9_FooterCountsLeftOut ==
  ExportDone /\ Unprocessed("high") + Unprocessed("medium")
                + Unprocessed("low") > 0 =>
    EndsWith(result.content,
             summaryFooter(Unprocessed("high")
                           + (Unprocessed("medium") * 8) \div 10
                           + (Unprocessed("low") * 3) \div 10))

\* every entry of every band was appended to the document
NothingLeftOut ==
  Unprocessed("high") + Unprocessed("medium") + Unprocessed("low") = 0

\* C27: the truncation footer appears only if at least one entry was left
\* out of the document; when every entry of every band was included the
\* content has no '## Summary' note about additional entries.
C27_FooterOnlyIfLeftOut ==
  (ExportDone /\ NothingLeftOut) =>
    /\ ~includes(result.content, "\n## Summary\n\n")
    /\ ~includes(result.content, "additional entries were summarized")

\* C28: for every entry list and every maxTokens > 0 the strategy returned
\* by createConsolidatedExport is 'consolidated': the accumulated
\* tokenCount never exceeds 0.98 * maxTokens, even when entries were
\* omitted, so 'prioritized' is never returned.
C28_AlwaysConsolidated ==
  (ExportDone /\ maxTokens > 0) =>
    /\ result.strategy = "consolidated"
    /\ 100 * result.tokenCount <= 98 * maxTokens

\* entries were appended and others omitted, and the strategy is
\* 'consolidated'
C28_Witness ==
  /\ ExportDone
  /\ ~NothingLeftOut
  /\ result.tokenCount > 0
  /\ result.strategy = "consolidated"

\* the topics of the items of a band that were appended
TopicsIncluded(b) ==
  UNION {{BandsOf(groupedContent)[b][i].topics[t] :
            t \in 1..Len(BandsOf(groupedContent)[b][i].topics)} :
         i \in included[b]}

\* C10: result.topics is the duplicate-free union of the topics of the
\* entries that were included, from all three bands.
C10_TopicsOfIncluded ==
  ExportDone =>
    /\ {result.topics[t] : t \in 1..Len(result.topics)}
         = TopicsIncluded("high") \cup TopicsIncluded("medium")
           \cup TopicsIncluded("low")
    /\ \A t, u \in 1..Len(result.topics) :
         t # u => result.topics[t] # result.topics[u]

====
